---------------------------- MODULE Spec2Model ----------------------------
(***************************************************************************)
(* Model of src/file-manager-server.py: the MCPFileServer request loop,    *)
(* its dispatcher, the path safety gate and the nine operation handlers,   *)
(* over a POSIX filesystem.  Paths, file contents and result texts are      *)
(* strings; a JSON value is a record [t |-> tag, v |-> value].             *)
(***************************************************************************)
EXTENDS Integers, Sequences, FiniteSets, TLC

(***************************************************************************)
(* Bounds of the model.                                                    *)
(***************************************************************************)
\* Number of input lines the caller sends before closing the stream.
MaxLines == 2

(***************************************************************************)
(* Python str methods used by the server and by posixpath.                 *)
(***************************************************************************)
\* str.startswith(prefix)
StartsWith(s, p) == Len(s) >= Len(p) /\ SubSeq(s, 1, Len(p)) = p

\* str.endswith(suffix)
EndsWith(s, p) == Len(s) >= Len(p) /\ SubSeq(s, Len(s) - Len(p) + 1, Len(s)) = p

\* s[i:] with a 1-based index
From(s, i) == SubSeq(s, i, Len(s))

\* sub in s
Contains(s, sub) ==
    \E i \in 1..(Len(s) - Len(sub) + 1) : SubSeq(s, i, i + Len(sub) - 1) = sub

\* s.find(c, i): the first index >= i holding the character c, 0 when none
RECURSIVE Find(_, _, _)
Find(s, c, i) ==
    IF i > Len(s) THEN 0
    ELSE IF SubSeq(s, i, i) = c THEN i
    ELSE Find(s, c, i + 1)

\* s.rfind(c): the last index holding the character c, 0 when none
RECURSIVE RFind(_, _, _)
RFind(s, c, i) ==
    IF i < 1 THEN 0
    ELSE IF SubSeq(s, i, i) = c THEN i
    ELSE RFind(s, c, i - 1)

\* s.split(c)
RECURSIVE Split(_, _)
Split(s, c) ==
    LET i == Find(s, c, 1) IN
    IF i = 0 THEN <<s>>
    ELSE <<SubSeq(s, 1, i - 1)>> \o Split(From(s, i + 1), c)

\* c.join(parts)
RECURSIVE Join(_, _)
Join(parts, c) ==
    IF Len(parts) = 0 THEN ""
    ELSE IF Len(parts) = 1 THEN parts[1]
    ELSE parts[1] \o c \o Join(Tail(parts), c)

\* s.rstrip(c)
RECURSIVE RStrip(_, _)
RStrip(s, c) ==
    IF Len(s) > 0 /\ SubSeq(s, Len(s), Len(s)) = c
    THEN RStrip(SubSeq(s, 1, Len(s) - 1), c)
    ELSE s

(***************************************************************************)
(* The ambient inputs of the process: working directory and home.          *)
(***************************************************************************)
Cwd == "/tmp"
Home == "/root"

(***************************************************************************)
(* posixpath, as called by the server.                                     *)
(***************************************************************************)
\* os.path.isabs
isabs(p) == StartsWith(p, "/")

\* os.path.join(a, b)
join(a, b) ==
    IF StartsWith(b, "/") THEN b
    ELSE IF a = "" \/ EndsWith(a, "/") THEN a \o b
    ELSE a \o "/" \o b

\* The component loop of os.path.normpath: comps still to read, new_comps so far.
RECURSIVE NormComps(_, _, _)
NormComps(comps, new, rooted) ==
    IF Len(comps) = 0 THEN new
    ELSE LET c == Head(comps)
             rest == Tail(comps)
         IN  IF c = "" \/ c = "." THEN NormComps(rest, new, rooted)
             ELSE IF c # ".." \/ (~rooted /\ Len(new) = 0)
                               \/ (Len(new) > 0 /\ new[Len(new)] = "..")
                  THEN NormComps(rest, Append(new, c), rooted)
             ELSE IF Len(new) > 0
                  THEN NormComps(rest, SubSeq(new, 1, Len(new) - 1), rooted)
             ELSE NormComps(rest, new, rooted)

\* os.path.normpath
normpath(p) ==
    IF p = "" THEN "."
    ELSE LET slashes == IF ~StartsWith(p, "/") THEN ""
                        ELSE IF StartsWith(p, "//") /\ ~StartsWith(p, "///") THEN "//"
                        ELSE "/"
             body == Join(NormComps(Split(p, "/"), <<>>, slashes # ""), "/")
             out == slashes \o body
         IN  IF out = "" THEN "." ELSE out

\* os.path.abspath in a process whose working directory is cwd
abspath_from(cwd, p) == normpath(IF isabs(p) THEN p ELSE join(cwd, p))

\* os.path.abspath in the server
abspath(p) == abspath_from(Cwd, p)

\* os.path.expanduser: "~" and "~/..." expand to the home directory; "~name"
\* names a user the password database does not hold and is left as it is.
expanduser(p) ==
    IF ~StartsWith(p, "~") THEN p
    ELSE LET i == IF Find(p, "/", 2) = 0 THEN Len(p) + 1 ELSE Find(p, "/", 2) IN
         IF i # 2 THEN p
         ELSE LET out == RStrip(Home, "/") \o From(p, i) IN
              IF out = "" THEN "/" ELSE out

\* os.path.basename
basename(p) == From(p, RFind(p, "/", Len(p)) + 1)

\* os.path.dirname
dirname(p) ==
    LET i == RFind(p, "/", Len(p))
        head == SubSeq(p, 1, i)
    IN  IF head # "" /\ RStrip(head, "/") # "" THEN RStrip(head, "/") ELSE head


(***************************************************************************)
(* JSON values as json.loads returns them.                                 *)
(***************************************************************************)
Null == [t |-> "null", v |-> "None"]
Str(s) == [t |-> "str", v |-> s]
Num(n) == [t |-> "num", v |-> n]
Bool(b) == [t |-> "bool", v |-> b]
List(items) == [t |-> "list", v |-> items]
Obj(members) == [t |-> "obj", v |-> members]

\* The empty dict {}
EmptyObj == Obj(<<>>)

\* dict.get(key, default) on a value known to be a dict
Get(d, key, default) == IF key \in DOMAIN d.v THEN d.v[key] ELSE default

\* Python truth value of a JSON value (if x:)
Truthy(x) ==
    CASE x.t = "null" -> FALSE
      [] x.t = "bool" -> x.v
      [] x.t = "num" -> x.v # 0
      [] x.t = "str" -> x.v # ""
      [] x.t = "list" -> Len(x.v) > 0
      [] x.t = "obj" -> DOMAIN x.v # {}

\* str(x) as an f-string renders it, for the values the model sends
PyStr(x) ==
    CASE x.t = "str" -> x.v
      [] x.t = "null" -> "None"
      [] x.t = "bool" -> IF x.v THEN "True" ELSE "False"
      [] x.t = "num" -> ToString(x.v)
      [] x.t = "list" -> "[...]"
      [] x.t = "obj" -> "{...}"

\* type(x).__name__, as Python's error messages name it
PyType(x) ==
    CASE x.t = "str" -> "str"
      [] x.t = "null" -> "NoneType"
      [] x.t = "bool" -> "bool"
      [] x.t = "num" -> "int"
      [] x.t = "list" -> "list"
      [] x.t = "obj" -> "dict"

(***************************************************************************)
(* Text and bytes.  A file holds a sequence of bytes; text is a string of  *)
(* ASCII characters.                                                       *)
(***************************************************************************)
Digits == "0123456789"
Upper == "ABCDEFGHIJKLMNOPQRSTUVWXYZ"
Lower == "abcdefghijklmnopqrstuvwxyz"
\* The punctuation of the model's texts, each with its ASCII code
Punct == " !\"#*,-./:=_{}~"
PunctCodes == <<32, 33, 34, 35, 42, 44, 45, 46, 47, 58, 61, 95, 123, 125, 126>>

\* ord(c)
Ord(c) ==
    IF c = "\n" THEN 10
    ELSE IF c = "\r" THEN 13
    ELSE IF Find(Digits, c, 1) # 0 THEN 47 + Find(Digits, c, 1)
    ELSE IF Find(Upper, c, 1) # 0 THEN 64 + Find(Upper, c, 1)
    ELSE IF Find(Lower, c, 1) # 0 THEN 96 + Find(Lower, c, 1)
    ELSE PunctCodes[Find(Punct, c, 1)]

\* chr(n) for an ASCII code
Chr(n) ==
    IF n = 10 THEN "\n"
    ELSE IF n = 13 THEN "\r"
    ELSE IF n \in 48..57 THEN SubSeq(Digits, n - 47, n - 47)
    ELSE IF n \in 65..90 THEN SubSeq(Upper, n - 64, n - 64)
    ELSE IF n \in 97..122 THEN SubSeq(Lower, n - 96, n - 96)
    ELSE LET i == CHOOSE j \in 1..Len(PunctCodes) : PunctCodes[j] = n
         IN  SubSeq(Punct, i, i)

\* The codecs the model knows; every other name raises LookupError.
Codecs == {"utf-8", "ascii"}

\* str.encode: one byte per ASCII character under both codecs
RECURSIVE Encode(_)
Encode(text) ==
    IF text = "" THEN <<>>
    ELSE IF Len(text) = 1 THEN <<Ord(text)>>
    ELSE Encode(SubSeq(text, 1, Len(text) \div 2))
             \o Encode(From(text, Len(text) \div 2 + 1))

\* A byte neither codec decodes: under ascii every byte above 127, under utf-8
\* a continuation byte met where a character starts (files of the model hold
\* no utf-8 lead byte).
Undecodable(b) == b > 127

\* bytes.decode(errors="strict"): defined when no byte is Undecodable
RECURSIVE Decode(_)
Decode(bytes) ==
    IF Len(bytes) = 0 THEN ""
    ELSE IF Len(bytes) = 1 THEN Chr(bytes[1])
    ELSE Decode(SubSeq(bytes, 1, Len(bytes) \div 2))
             \o Decode(SubSeq(bytes, Len(bytes) \div 2 + 1, Len(bytes)))

\* bytes.decode(errors="ignore"): undecodable bytes are dropped
RECURSIVE DecodeIgnore(_)
DecodeIgnore(bytes) ==
    IF Len(bytes) = 0 THEN ""
    ELSE IF Len(bytes) = 1
    THEN (IF Undecodable(bytes[1]) THEN "" ELSE Chr(bytes[1]))
    ELSE DecodeIgnore(SubSeq(bytes, 1, Len(bytes) \div 2))
             \o DecodeIgnore(SubSeq(bytes, Len(bytes) \div 2 + 1, Len(bytes)))

\* Reading in text mode with newline=None: "\r\n" and "\r" both become "\n".
RECURSIVE UniversalNewlines(_)
UniversalNewlines(text) ==
    IF text = "" THEN ""
    ELSE IF text = "\r\n" \/ text = "\r" THEN "\n"
    ELSE IF Len(text) = 1 THEN text
    ELSE IF Len(text) = 2 THEN UniversalNewlines(SubSeq(text, 1, 1))
                                   \o UniversalNewlines(SubSeq(text, 2, 2))
    ELSE IF SubSeq(text, Len(text) \div 2, Len(text) \div 2 + 1) = "\r\n"
    THEN UniversalNewlines(SubSeq(text, 1, Len(text) \div 2 + 1))
             \o UniversalNewlines(From(text, Len(text) \div 2 + 2))
    ELSE UniversalNewlines(SubSeq(text, 1, Len(text) \div 2))
             \o UniversalNewlines(From(text, Len(text) \div 2 + 1))

\* Writing in text mode with newline=None: "\n" becomes os.linesep, which is
\* "\n" on POSIX.
WriteNewlines(text) == text

(***************************************************************************)
(* The filesystem: a function from absolute normalised paths to nodes.     *)
(***************************************************************************)
Dir == [type |-> "dir", data |-> <<>>]
File(bytes) == [type |-> "file", data |-> bytes]

\* The pipe the process reads its input from, which the kernel also shows as
\* the node /dev/stdin; its data are the bytes written to it and not yet read
Pipe(bytes) == [type |-> "pipe", data |-> bytes]
StdinPath == "/dev/stdin"

\* f after a read to the end of the node r: what was in a pipe is gone
\* Emptied as it would be were every read to drain what it read
EmptiedWhateverItIs(f, r) == [f EXCEPT ![r].data = <<>>]


Emptied(f, r) == IF f[r].type = "pipe" THEN [f EXCEPT ![r].data = <<>>] ELSE f

\* The path of entry name in directory d
Child(d, name) == IF d = "/" THEN "/" \o name ELSE d \o "/" \o name

\* The directory holding q
Parent(q) == IF q = "/" THEN "/" ELSE dirname(q)

\* q lies strictly beneath directory d
Beneath(q, d) == q # d /\ (d = "/" \/ StartsWith(q, d \o "/"))

\* The kernel's walk of a path's components from directory cur: every
\* component is looked up in a directory that exists.  Yields the absolute
\* path named, or "!ENOENT" / "!ENOTDIR".
RECURSIVE Walk(_, _, _)
Walk(f, cur, comps) ==
    IF Len(comps) = 0 THEN cur
    ELSE IF cur \notin DOMAIN f THEN "!ENOENT"
    ELSE IF f[cur].type # "dir" THEN "!ENOTDIR"
    ELSE LET c == Head(comps) IN
         IF c = "" \/ c = "." THEN Walk(f, cur, Tail(comps))
         ELSE IF c = ".." THEN Walk(f, Parent(cur), Tail(comps))
         ELSE Walk(f, Child(cur, c), Tail(comps))

\* Path resolution of a system call given path p (no symbolic links): the
\* absolute path of the node named, which may not exist, or an error.
Resolve(f, p) ==
    IF p = "" THEN "!ENOENT"
    ELSE Walk(f, "/", Split(IF isabs(p) THEN p ELSE Cwd \o "/" \o p, "/"))

IsErr(r) == StartsWith(r, "!")

\* os.path.exists / isdir / isfile
exists(f, p) == ~IsErr(Resolve(f, p)) /\ Resolve(f, p) \in DOMAIN f
isdir(f, p) == exists(f, p) /\ f[Resolve(f, p)].type = "dir"
isfile(f, p) == exists(f, p) /\ f[Resolve(f, p)].type = "file"

\* The entries of directory d, and everything beneath it
Entries(f, d) == {q \in DOMAIN f : q # "/" /\ Parent(q) = d}
Tree(f, d) == {q \in DOMAIN f : Beneath(q, d)}

\* f with node n at path q / without the paths in gone
Put(f, q, n) == [x \in DOMAIN f \cup {q} |-> IF x = q THEN n ELSE f[x]]
Remove(f, gone) == [x \in DOMAIN f \ gone |-> f[x]]

\* The paths a path resolution answers for: the node named when the walk
\* reaches it
Seen(f, p) == IF IsErr(Resolve(f, p)) THEN {} ELSE {Resolve(f, p)}

(***************************************************************************)
(* The Safety Gate.                                                        *)
(***************************************************************************)
DenyList == <<"/etc", "/sys", "/proc", "C:\\Windows", "C:\\Program Files">>

\* The deny list test as it would be were the path compared with the entries
\* instead of its beginning
DeniedByName(abs) == \E i \in 1..Len(DenyList) : abs = DenyList[i]

\* The deny list test as it would be were a path denied only when it is an
\* entry or lies inside one
DeniedWithin(abs) ==
    \E i \in 1..Len(DenyList) : abs = DenyList[i] \/ StartsWith(abs, DenyList[i] \o "/")

\* abs_path.startswith((...)) over the deny list
Denied(abs) == \E i \in 1..Len(DenyList) : StartsWith(abs, DenyList[i])

\* is_safe_path in a process whose working directory is cwd: a value that is
\* not a str makes expanduser raise TypeError, which the bare except turns
\* into False.
is_safe_path_from(cwd, file_path) ==
    IF file_path.t # "str" THEN FALSE
    ELSE ~Denied(abspath_from(cwd, expanduser(file_path.v)))

\* is_safe_path in the server
is_safe_path(file_path) == is_safe_path_from(Cwd, file_path)

(***************************************************************************)
(* The library calls the handlers make, over a filesystem f.  A call that  *)
(* can fail yields a record whose err is "" on success and otherwise the   *)
(* text of the exception raised; fs is the filesystem it leaves behind.    *)
(***************************************************************************)
\* str(OSError)
StrError(code, path) ==
    CASE code = "ENOENT" -> "[Errno 2] No such file or directory: '" \o path \o "'"
      [] code = "EEXIST" -> "[Errno 17] File exists: '" \o path \o "'"
      [] code = "ENOTDIR" -> "[Errno 20] Not a directory: '" \o path \o "'"
      [] code = "EISDIR" -> "[Errno 21] Is a directory: '" \o path \o "'"
      [] code = "EINVAL" -> "[Errno 22] Invalid argument: '" \o path \o "'"
      [] code = "ENOTEMPTY" -> "[Errno 39] Directory not empty: '" \o path \o "'"

\* The errno of a failed resolution "!ENOENT" / "!ENOTDIR"
Errno(r) == From(r, 2)

Ok(f) == [fs |-> f, err |-> ""]
Fail(f, msg) == [fs |-> f, err |-> msg]

\* posixpath.splitext(p)[1]: the extension of the last component; leading
\* dots of the name do not start an extension
splitext(p) ==
    LET b == basename(p)
        i == RFind(b, ".", Len(b))
    IN  IF i = 0 \/ \A j \in 1..i : SubSeq(b, j, j) = "." THEN "" ELSE From(b, i)

\* mimetypes.guess_type(p)[0], "" standing for None
guess_type(p) ==
    LET ext == splitext(p) IN
    CASE ext = ".png" -> "image/png"
      [] ext = ".mp3" -> "audio/mpeg"
      [] ext = ".mp4" -> "video/mp4"
      [] ext = ".bin" -> "application/octet-stream"
      [] ext = ".txt" -> "text/plain"
      [] OTHER -> ""

\* The base64 alphabet
B64 == Upper \o Lower \o Digits \o "+/"
B64Char(n) == SubSeq(B64, n + 1, n + 1)

\* base64.b64encode(bytes).decode("ascii")
RECURSIVE b64encode(_)
b64encode(bytes) ==
    IF Len(bytes) = 0 THEN ""
    ELSE IF Len(bytes) = 1 THEN
        B64Char(bytes[1] \div 4) \o B64Char((bytes[1] % 4) * 16) \o "=="
    ELSE IF Len(bytes) = 2 THEN
        B64Char(bytes[1] \div 4) \o B64Char((bytes[1] % 4) * 16 + bytes[2] \div 16)
            \o B64Char((bytes[2] % 16) * 4) \o "="
    ELSE B64Char(bytes[1] \div 4) \o B64Char((bytes[1] % 4) * 16 + bytes[2] \div 16)
            \o B64Char((bytes[2] % 16) * 4 + bytes[3] \div 64) \o B64Char(bytes[3] % 64)
            \o b64encode(SubSeq(bytes, 4, Len(bytes)))

\* open(p, "rb") / the FileIO under open(p, "r"): the node must be a file
OpenRead(f, p) ==
    LET r == Resolve(f, p) IN
    IF IsErr(r) THEN Fail(f, StrError(Errno(r), p))
    ELSE IF r \notin DOMAIN f THEN Fail(f, StrError("ENOENT", p))
    ELSE IF f[r].type = "dir" THEN Fail(f, StrError("EISDIR", p))
    ELSE Ok(f)

\* open(p, mode) as it would be were an existing file never truncated
OpenWriteKeeping(f, p, mode) ==
    LET r == Resolve(f, p) IN
    IF IsErr(r) THEN Fail(f, StrError(Errno(r), p))
    ELSE IF r \in DOMAIN f /\ f[r].type = "dir" THEN Fail(f, StrError("EISDIR", p))
    ELSE IF r \in DOMAIN f THEN Ok(f)
    ELSE Ok(Put(f, r, File(<<>>)))


\* The FileIO under open(p, mode) for mode "w" / "a" / "wb": creates the
\* file when absent and, except under "a", truncates it
OpenWrite(f, p, mode) ==
    LET r == Resolve(f, p) IN
    IF IsErr(r) THEN Fail(f, StrError(Errno(r), p))
    ELSE IF r \in DOMAIN f /\ f[r].type = "dir" THEN Fail(f, StrError("EISDIR", p))
    ELSE IF r \in DOMAIN f /\ mode = "a" THEN Ok(f)
    ELSE Ok(Put(f, r, File(<<>>)))

\* f.write(bytes) on a file opened by OpenWrite
WriteBytes(f, p, bytes) ==
    LET r == Resolve(f, p) IN Put(f, r, File(f[r].data \o bytes))

\* os.mkdir(p)
os_mkdir(f, p) ==
    LET r == Resolve(f, p) IN
    IF IsErr(r) THEN Fail(f, Errno(r))
    ELSE IF r \in DOMAIN f THEN Fail(f, "EEXIST")
    ELSE Ok(Put(f, r, Dir))

\* str(Path(p)): repeated slashes, "." components and a trailing slash are
\* dropped, ".." is kept
PathStr(p) ==
    LET keep == SelectSeq(Split(p, "/"), LAMBDA c : c # "" /\ c # ".")
        body == Join(keep, "/")
    IN  IF isabs(p) THEN "/" \o body
        ELSE IF body = "" THEN "." ELSE body

\* Path(p).parent, on the string of a Path
PathParent(p) ==
    LET i == RFind(p, "/", Len(p)) IN
    IF p = "/" \/ p = "." THEN p
    ELSE IF i = 0 THEN "."
    ELSE IF i = 1 THEN "/"
    ELSE SubSeq(p, 1, i - 1)

\* Path(p).mkdir(parents=parents, exist_ok=exist_ok), p the string of a Path
RECURSIVE PathMkdir(_, _, _, _)
PathMkdir(f, p, parents, exist_ok) ==
    LET made == os_mkdir(f, p) IN
    IF made.err = "" THEN made
    ELSE IF made.err = "ENOENT" THEN
        IF ~parents \/ PathParent(p) = p THEN Fail(f, StrError("ENOENT", p))
        ELSE LET up == PathMkdir(f, PathParent(p), TRUE, TRUE) IN
             IF up.err # "" THEN up
             ELSE PathMkdir(up.fs, p, FALSE, exist_ok)
    ELSE IF ~exist_ok \/ ~isdir(f, p) THEN Fail(f, StrError(made.err, p))
    ELSE Ok(f)

\* os.path.split(p)
split(p) ==
    LET i == RFind(p, "/", Len(p))
        head == SubSeq(p, 1, i)
    IN  <<IF head # "" /\ RStrip(head, "/") # "" THEN RStrip(head, "/") ELSE head,
          From(p, i + 1)>>

\* The rest of a block after a call that may raise: the exception leaves
\* the block, and otherwise the rest runs on the filesystem the call left
Then(r, Rest(_)) == IF r.err # "" THEN r ELSE Rest(r.fs)

\* The OSError raised for the errno an os call on p failed with
Raise(r, p) == IF r.err = "" THEN r ELSE Fail(r.fs, StrError(r.err, p))

\* head, tail = path.split(name), and once more when tail is empty
SplitTwice(first) == IF first[2] = "" THEN split(first[1]) ELSE first

\* os.makedirs after its recursive call on head: a FileExistsError of that
\* call is passed over, a tail of "." needs no mkdir, and mkdir(name) comes last
MakeLast(up, p, tail) ==
    IF up.err # "" /\ ~StartsWith(up.err, "[Errno 17]") THEN up
    ELSE IF tail = "." THEN Ok(up.fs)
    ELSE Raise(os_mkdir(up.fs, p), p)

\* os.makedirs(p, exist_ok=False)
RECURSIVE makedirs(_, _), MakeFrom(_, _, _)
makedirs(f, p) == MakeFrom(f, p, SplitTwice(split(p)))

MakeFrom(f, p, ht) ==
    IF ht[1] # "" /\ ht[2] # "" /\ ~exists(f, ht[1])
    THEN MakeLast(makedirs(f, ht[1]), p, ht[2])
    ELSE Raise(os_mkdir(f, p), p)

\* os.path.samefile inside shutil._samefile: False when either stat fails
samefile(f, a, b) == exists(f, a) /\ exists(f, b) /\ Resolve(f, a) = Resolve(f, b)

\* shutil.copyfile(src, dst) followed by copystat, dst already final
\* copyfile as it would be were dst opened and nothing written to it
CopyFileWritingNothing(f, src, dst) ==
    IF samefile(f, src, dst) THEN Fail(f, src \o " and " \o dst \o " are the same file")
    ELSE Then(OpenRead(f, src), LAMBDA g : OpenWrite(g, dst, "wb"))

copyfile(f, src, dst) ==
    IF samefile(f, src, dst) THEN Fail(f, src \o " and " \o dst \o " are the same file")
    ELSE LET rd == OpenRead(f, src) IN
         IF rd.err # "" THEN rd
         ELSE LET wr == OpenWrite(f, dst, "wb") IN
              IF wr.err # "" THEN wr
              ELSE Ok(WriteBytes(wr.fs, dst, f[Resolve(f, src)].data))

\* shutil.copy2(src, dst)
copy2(f, src, dst) ==
    copyfile(f, src, IF isdir(f, dst) THEN join(dst, basename(src)) ELSE dst)

\* The names os.scandir(d) yields, in the order the model fixes for them
RECURSIVE SetToSeq(_)
SetToSeq(S) ==
    IF S = {} THEN <<>>
    ELSE LET x == CHOOSE y \in S : TRUE IN <<x>> \o SetToSeq(S \ {x})

listdir(f, d) ==
    IF ~isdir(f, d) THEN <<>>
    ELSE SetToSeq({basename(q) : q \in Entries(f, Resolve(f, d))})

\* shutil.copytree(src, dst) and, in CopyEntries, its loop over the entries
\* listed before dst was made; the errors of the entries are collected and
\* raised when the loop is over
RECURSIVE copytree(_, _, _), CopyEntries(_, _, _, _, _), CopyRest(_, _, _, _, _)
copytree(f, src, dst) ==
    Then(makedirs(f, dst), LAMBDA g : CopyEntries(g, src, dst, listdir(f, src), ""))

CopyEntries(f, src, dst, names, errors) ==
    IF Len(names) = 0 THEN [fs |-> f, err |-> errors]
    ELSE CopyRest(IF isdir(f, join(src, Head(names)))
                  THEN copytree(f, join(src, Head(names)), join(dst, Head(names)))
                  ELSE copy2(f, join(src, Head(names)), join(dst, Head(names))),
                  src, dst, Tail(names), errors)

CopyRest(done, src, dst, names, errors) ==
    CopyEntries(done.fs, src, dst, names,
                IF done.err = "" THEN errors ELSE errors \o done.err \o "; ")

\* The last component of a path, trailing slashes aside
LastComponent(p) == basename(RStrip(p, "/"))

\* shutil.rmtree(p) of a directory: what is beneath it is removed first and
\* os.rmdir(p) comes last, which the kernel refuses for a path whose last
\* component is "." and which finds nothing at a path through ".." once the
\* directory it went through is gone
rmtree(f, p) ==
    LET r == Resolve(f, p) IN
    IF IsErr(r) THEN Fail(f, StrError(Errno(r), p))
    ELSE IF r \notin DOMAIN f THEN Fail(f, StrError("ENOENT", p))
    ELSE IF f[r].type # "dir" THEN Fail(f, StrError("ENOTDIR", p))
    ELSE IF LastComponent(p) = "." THEN Fail(Remove(f, Tree(f, r)), StrError("EINVAL", p))
    ELSE IF LastComponent(p) = ".." THEN Fail(Remove(f, Tree(f, r)), StrError("ENOENT", p))
    ELSE Ok(Remove(f, {r} \cup Tree(f, r)))

\* os.rmdir(p)
os_rmdir(f, p) ==
    LET r == Resolve(f, p) IN
    IF IsErr(r) THEN Fail(f, StrError(Errno(r), p))
    ELSE IF r \notin DOMAIN f THEN Fail(f, StrError("ENOENT", p))
    ELSE IF f[r].type # "dir" THEN Fail(f, StrError("ENOTDIR", p))
    ELSE IF LastComponent(p) = "." THEN Fail(f, StrError("EINVAL", p))
    ELSE IF LastComponent(p) = ".." \/ Entries(f, r) # {}
    THEN Fail(f, StrError("ENOTEMPTY", p))
    ELSE IF r = "/" THEN Fail(f, "[Errno 16] Device or resource busy: " \o p)
    ELSE Ok(Remove(f, {r}))

\* os.remove(p) / os.unlink(p)
os_remove(f, p) ==
    LET r == Resolve(f, p) IN
    IF IsErr(r) THEN Fail(f, StrError(Errno(r), p))
    ELSE IF r \notin DOMAIN f THEN Fail(f, StrError("ENOENT", p))
    ELSE IF f[r].type = "dir" THEN Fail(f, StrError("EISDIR", p))
    ELSE Ok(Remove(f, {r}))

\* os.rename(src, dst); err is the errno name
os_rename(f, src, dst) ==
    LET rs == Resolve(f, src)
        rd == Resolve(f, dst)
        moved == [x \in (DOMAIN f \ ({rs, rd} \cup Tree(f, rs)))
                        \cup {rd} \cup {rd \o From(q, Len(rs) + 1) : q \in Tree(f, rs)} |->
                    IF x = rd THEN f[rs]
                    ELSE IF Beneath(x, rd) THEN f[rs \o From(x, Len(rd) + 1)]
                    ELSE f[x]]
    IN  IF IsErr(rs) THEN Fail(f, Errno(rs))
        ELSE IF rs \notin DOMAIN f THEN Fail(f, "ENOENT")
        ELSE IF IsErr(rd) THEN Fail(f, Errno(rd))
        ELSE IF rs = rd THEN Ok(f)
        ELSE IF f[rs].type = "dir" /\ Beneath(rd, rs) THEN Fail(f, "EINVAL")
        ELSE IF rd \in DOMAIN f /\ f[rs].type = "dir" /\ f[rd].type = "file"
             THEN Fail(f, "ENOTDIR")
        ELSE IF rd \in DOMAIN f /\ f[rs].type = "file" /\ f[rd].type = "dir"
             THEN Fail(f, "EISDIR")
        ELSE IF rd \in DOMAIN f /\ f[rd].type = "dir" /\ Entries(f, rd) # {}
             THEN Fail(f, "ENOTEMPTY")
        ELSE Ok(moved)

\* shutil._destinsrc(src, dst)
destinsrc(src, dst) ==
    LET a == abspath(src)
        b == abspath(dst)
        asep == IF EndsWith(a, "/") THEN a ELSE a \o "/"
        bsep == IF EndsWith(b, "/") THEN b ELSE b \o "/"
    IN  StartsWith(bsep, asep)

\* shutil.move(src, dst)
\* and in MoveTo what shutil.move does once real_dst is settled, renamed
\* being the outcome of os.rename(src, real_dst)
MoveTo(f, src, dst, real_dst, renamed) ==
    IF isdir(f, dst) /\ exists(f, real_dst)
    THEN Fail(f, "Destination path " \o real_dst \o " already exists")
    ELSE IF renamed.err = "" THEN renamed
    ELSE IF isdir(f, src) THEN
        IF destinsrc(src, real_dst)
        THEN Fail(f, "Cannot move a directory '" \o src
                      \o "' into itself '" \o real_dst \o "'.")
        ELSE Then(copytree(f, src, real_dst), LAMBDA g : rmtree(g, src))
    ELSE Then(copy2(f, src, real_dst), LAMBDA g : os_remove(g, src))

RealDst(f, src, dst) ==
    IF isdir(f, dst) THEN join(dst, basename(RStrip(src, "/"))) ELSE dst

shutil_move(f, src, dst) ==
    IF isdir(f, dst) /\ samefile(f, src, dst) THEN Ok(f)
    ELSE MoveTo(f, src, dst, RealDst(f, src, dst), os_rename(f, src, RealDst(f, src, dst)))

(***************************************************************************)
(* fnmatch and glob.                                                       *)
(***************************************************************************)
\* fnmatch.fnmatch(name, pat) for patterns of literals, "*" and "?"
RECURSIVE fnmatch(_, _)
fnmatch(name, pat) ==
    IF pat = "" THEN name = ""
    ELSE IF StartsWith(pat, "*")
         THEN fnmatch(name, From(pat, 2)) \/ (name # "" /\ fnmatch(From(name, 2), pat))
    ELSE IF StartsWith(pat, "?")
         THEN name # "" /\ fnmatch(From(name, 2), From(pat, 2))
    ELSE name # "" /\ SubSeq(name, 1, 1) = SubSeq(pat, 1, 1)
                   /\ fnmatch(From(name, 2), From(pat, 2))

\* glob.has_magic, glob._isrecursive, glob._ishidden
has_magic(s) == Contains(s, "*") \/ Contains(s, "?") \/ Contains(s, "[")
isrecursive(pat) == pat = "**"
ishidden(name) == StartsWith(name, ".")

\* The concatenation of Op(x) over the elements x of a sequence
RECURSIVE FlatMap(_, _)
FlatMap(Op(_), seq) ==
    IF Len(seq) = 0 THEN <<>> ELSE Op(Head(seq)) \o FlatMap(Op, Tail(seq))

\* glob._listdir(dirname, dironly): the names in a directory, none when the
\* scan fails
glob_listdir(f, dname, dironly) ==
    LET arg == IF dname = "" THEN "." ELSE dname IN
    SelectSeq(listdir(f, arg), LAMBDA x : ~dironly \/ isdir(f, join(arg, x)))

\* glob._rlistdir
RECURSIVE rlistdir(_, _, _)
rlistdir(f, dname, dironly) ==
    FlatMap(LAMBDA x :
                IF ishidden(x) THEN <<>>
                ELSE <<x>> \o FlatMap(LAMBDA y : <<join(x, y)>>,
                                      rlistdir(f, IF dname = "" THEN x
                                                  ELSE join(dname, x), dironly)),
            glob_listdir(f, dname, dironly))

\* glob._glob0, glob._glob1, glob._glob2: the names matched inside dirname
glob0(f, dname, base) ==
    IF base # "" THEN (IF exists(f, join(dname, base)) THEN <<base>> ELSE <<>>)
    ELSE IF isdir(f, dname) THEN <<base>> ELSE <<>>

glob1(f, dname, pat, dironly) ==
    SelectSeq(glob_listdir(f, dname, dironly),
              LAMBDA x : (ishidden(pat) \/ ~ishidden(x)) /\ fnmatch(x, pat))

glob2(f, dname, dironly) == <<"">> \o rlistdir(f, dname, dironly)

\* glob._iglob(pathname, recursive, dironly)
RECURSIVE iglob(_, _, _, _)
iglob(f, pathname, recursive, dironly) ==
    LET dname == split(pathname)[1]
        base == split(pathname)[2]
    IN  IF ~has_magic(pathname) THEN
            IF base # "" THEN (IF exists(f, pathname) THEN <<pathname>> ELSE <<>>)
            ELSE IF isdir(f, dname) THEN <<pathname>> ELSE <<>>
        ELSE IF dname = "" THEN
            IF recursive /\ isrecursive(base) THEN glob2(f, "", dironly)
            ELSE glob1(f, "", base, dironly)
        ELSE LET dirs == IF dname # pathname /\ has_magic(dname)
                         THEN iglob(f, dname, recursive, TRUE)
                         ELSE <<dname>>
                 InDir(d) == IF ~has_magic(base) THEN glob0(f, d, base)
                             ELSE IF recursive /\ isrecursive(base) THEN glob2(f, d, dironly)
                             ELSE glob1(f, d, base, dironly)
             IN  FlatMap(LAMBDA d : FlatMap(LAMBDA name : <<join(d, name)>>, InDir(d)),
                         dirs)

\* glob.glob(pathname, recursive=recursive)
glob(f, pathname, recursive) ==
    LET it == iglob(f, pathname, recursive, FALSE) IN
    IF (pathname = "" \/ (recursive /\ isrecursive(SubSeq(pathname, 1, 2))))
       /\ Len(it) > 0 /\ it[1] = ""
    THEN Tail(it) ELSE it

(***************************************************************************)
(* Results of the operation handlers.  A handler yields the ToolResult it  *)
(* returns, the filesystem it leaves and, as bookkeeping of the model, the *)
(* absolute paths of the nodes its system calls acted on.                  *)
(***************************************************************************)
TextResult(text) == [content |-> <<[type |-> "text", text |-> text]>>]
Done(text, f, touched) == [result |-> TextResult(text), fs |-> f, touched |-> touched]

RestrictedText == "Error: Access to this path is restricted"

\* The paths whose node differs between f and g
Changed(f, g) ==
    {q \in DOMAIN f \cup DOMAIN g :
        q \notin DOMAIN f \/ q \notin DOMAIN g \/ f[q] # g[q]}

\* What a handler returns after the filesystem call r of its try block: the
\* text of the except branch or of the success, the filesystem the call
\* left, and the paths acted on
Outcome(f, r, acted, failure, success) ==
    Done(IF r.err # "" THEN failure \o r.err ELSE success,
         r.fs, acted \cup Changed(f, r.fs))

\* The directory size stat reports
DirSize == 4096

\* stat(p).st_size of an existing node
st_size(f, p) ==
    LET n == f[Resolve(f, p)] IN IF n.type = "dir" THEN DirSize ELSE Len(n.data)

\* open(p, mode, encoding=encoding) in text mode: the argument check, then the
\* FileIO, then the codec lookup
OpenText(f, p, mode, encoding) ==
    IF encoding.t \notin {"str", "null"}
    THEN Fail(f, "open() argument 'encoding' must be str or None, not " \o PyType(encoding))
    ELSE LET raw == IF mode = "r" THEN OpenRead(f, p) ELSE OpenWrite(f, p, mode) IN
         IF raw.err # "" THEN raw
         ELSE IF encoding.t = "str" /\ encoding.v \notin Codecs
              THEN Fail(raw.fs, "unknown encoding: " \o encoding.v)
         ELSE raw

\* mime_type and mime_type.startswith(('image/', 'audio/', 'video/',
\* 'application/octet-stream'))
IsBinaryMime(mime) ==
    mime # "" /\ (StartsWith(mime, "image/") \/ StartsWith(mime, "audio/")
                  \/ StartsWith(mime, "video/")
                  \/ StartsWith(mime, "application/octet-stream"))

read_file(f, args) ==
    LET file_path == Get(args, "path", Str(""))
        encoding == Get(args, "encoding", Str("utf-8"))
    IN  IF ~is_safe_path(file_path) THEN Done(RestrictedText, f, {})
        ELSE LET p == file_path.v
                 r == Resolve(f, p)
             IN  IF IsBinaryMime(guess_type(p)) THEN
                     LET opened == OpenRead(f, p) IN
                     IF opened.err # ""
                     THEN Done("Error reading file: " \o opened.err, f, Seen(f, p))
                     ELSE Done("Binary file (base64 encoded):\n" \o b64encode(f[r].data),
                               Emptied(f, r), Seen(f, p))
                 ELSE
                     LET opened == OpenText(f, p, "r", encoding) IN
                     IF opened.err # ""
                     THEN Done("Error reading file: " \o opened.err, f, Seen(f, p))
                     ELSE IF \E i \in 1..Len(f[r].data) : Undecodable(f[r].data[i])
                     THEN Done("Error reading file: codec can't decode byte", f, Seen(f, p))
                     ELSE Done(UniversalNewlines(Decode(f[r].data)), Emptied(f, r),
                               Seen(f, p))

\* f.write(content) on the file open() left, and its close
FileWrite(f, p, content) ==
    IF content.t # "str"
    THEN Fail(f, "write() argument must be str, not " \o PyType(content))
    ELSE Ok(WriteBytes(f, p, Encode(WriteNewlines(content.v))))

write_file(f, args) ==
    LET file_path == Get(args, "path", Str(""))
        content == Get(args, "content", Str(""))
        encoding == Get(args, "encoding", Str("utf-8"))
        append == Get(args, "append", Bool(FALSE))
    IN  IF ~is_safe_path(file_path) THEN Done(RestrictedText, f, {})
        ELSE LET p == file_path.v
                 mode == IF Truthy(append) THEN "a" ELSE "w"
                 action == IF Truthy(append) THEN "appended to" ELSE "written to"
             IN  Outcome(f,
                         Then(OpenText(f, p, mode, encoding),
                              LAMBDA g : FileWrite(g, p, content)),
                         Seen(f, p),
                         "Error writing file: ",
                         "Successfully " \o action \o " file: " \o p)

\* json.dumps(file_list, indent=2) of list_files; the modified time of an
\* entry is not modelled
RECURSIVE DumpFileList(_, _)
DumpFileList(f, files) ==
    IF Len(files) = 0 THEN ""
    ELSE LET p == Head(files) IN
         "  {\n    \"path\": \"" \o p \o "\",\n    \"type\": \""
            \o (IF isdir(f, p) THEN "dir" ELSE "file")
            \o "\",\n    \"size\": " \o ToString(st_size(f, p)) \o "\n  }"
            \o (IF Len(files) > 1 THEN ",\n" ELSE "\n")
            \o DumpFileList(f, Tail(files))

\* The result list_files returns for the entries it found
Listing(f, file_list) ==
    Done(IF Len(file_list) = 0 THEN "[]" ELSE "[\n" \o DumpFileList(f, file_list) \o "]",
         f, UNION {Seen(f, file_list[i]) : i \in 1..Len(file_list)})

list_files(f, args) ==
    LET directory == Get(args, "path", Str("."))
        pattern == Get(args, "pattern", Str("*"))
        recursive == Get(args, "recursive", Bool(FALSE))
    IN  IF ~is_safe_path(directory) THEN Done(RestrictedText, f, {})
        ELSE IF pattern.t # "str"
        THEN Done("Error listing files: join() argument must be str, bytes, or "
                      \o "os.PathLike object, not '" \o PyType(pattern) \o "'", f, {})
        ELSE LET search_pattern == IF Truthy(recursive)
                                   THEN join(join(directory.v, "**"), pattern.v)
                                   ELSE join(directory.v, pattern.v)
                 files == glob(f, search_pattern, Truthy(recursive))
             IN  Listing(f, SelectSeq(files, LAMBDA p : exists(f, p)))

\* create_directory as it would be were mkdir called without exist_ok
CreateDirectoryWithoutExistOk(f, args) ==
    LET dir_path == Get(args, "path", Str(""))
        parents == Get(args, "parents", Bool(TRUE))
    IN  IF ~is_safe_path(dir_path) THEN Done(RestrictedText, f, {})
        ELSE Outcome(f, PathMkdir(f, PathStr(dir_path.v), Truthy(parents), FALSE),
                     Seen(f, dir_path.v),
                     "Error creating directory: ",
                     "Successfully created directory: " \o dir_path.v)

create_directory(f, args) ==
    LET dir_path == Get(args, "path", Str(""))
        parents == Get(args, "parents", Bool(TRUE))
    IN  IF ~is_safe_path(dir_path) THEN Done(RestrictedText, f, {})
        ELSE Outcome(f, PathMkdir(f, PathStr(dir_path.v), Truthy(parents), TRUE),
                     Seen(f, dir_path.v),
                     "Error creating directory: ",
                     "Successfully created directory: " \o dir_path.v)

\* delete_file as it would be were a directory always removed with rmtree,
\* whatever the recursive flag
DeleteFileAlwaysRecursive(f, args) ==
    LET file_path == Get(args, "path", Str(""))
        recursive == Get(args, "recursive", Bool(FALSE))
    IN  IF ~is_safe_path(file_path) THEN Done(RestrictedText, f, {})
        ELSE LET p == file_path.v IN
             Outcome(f,
                     IF isdir(f, p) THEN rmtree(f, p) ELSE os_remove(f, p),
                     Seen(f, p),
                     "Error deleting file: ",
                     "Successfully deleted: " \o p)

delete_file(f, args) ==
    LET file_path == Get(args, "path", Str(""))
        recursive == Get(args, "recursive", Bool(FALSE))
    IN  IF ~is_safe_path(file_path) THEN Done(RestrictedText, f, {})
        ELSE LET p == file_path.v IN
             Outcome(f,
                     IF isdir(f, p)
                     THEN (IF Truthy(recursive) THEN rmtree(f, p) ELSE os_rmdir(f, p))
                     ELSE os_remove(f, p),
                     Seen(f, p),
                     "Error deleting file: ",
                     "Successfully deleted: " \o p)

\* move_file as it would be were the Safety Gate asked about the source only
MoveFileGatingSourceOnly(f, args) ==
    LET source == Get(args, "source", Str(""))
        destination == Get(args, "destination", Str(""))
    IN  IF ~is_safe_path(source) \/ destination.t # "str"
        THEN Done(RestrictedText, f, {})
        ELSE Outcome(f, shutil_move(f, source.v, destination.v),
                     Seen(f, source.v) \cup Seen(f, destination.v),
                     "Error moving file: ",
                     "Successfully moved " \o source.v \o " to " \o destination.v)

move_file(f, args) ==
    LET source == Get(args, "source", Str(""))
        destination == Get(args, "destination", Str(""))
    IN  IF ~is_safe_path(source) \/ ~is_safe_path(destination)
        THEN Done(RestrictedText, f, {})
        ELSE Outcome(f, shutil_move(f, source.v, destination.v),
                     Seen(f, source.v) \cup Seen(f, destination.v),
                     "Error moving file: ",
                     "Successfully moved " \o source.v \o " to " \o destination.v)

RecursiveHint == "Error: Use recursive=true to copy directories"

\* copy_file as it would be without the test of the recursive flag: a
\* directory is handed to copy2 like a file
CopyFileWithoutGuard(f, args) ==
    LET source == Get(args, "source", Str(""))
        destination == Get(args, "destination", Str(""))
        recursive == Get(args, "recursive", Bool(FALSE))
    IN  IF ~is_safe_path(source) \/ ~is_safe_path(destination)
        THEN Done(RestrictedText, f, {})
        ELSE Outcome(f,
                     IF isdir(f, source.v) /\ Truthy(recursive)
                     THEN copytree(f, source.v, destination.v)
                     ELSE copy2(f, source.v, destination.v),
                     Seen(f, source.v) \cup Seen(f, destination.v),
                     "Error copying file: ",
                     "Successfully copied " \o source.v \o " to " \o destination.v)

copy_file(f, args) ==
    LET source == Get(args, "source", Str(""))
        destination == Get(args, "destination", Str(""))
        recursive == Get(args, "recursive", Bool(FALSE))
    IN  IF ~is_safe_path(source) \/ ~is_safe_path(destination)
        THEN Done(RestrictedText, f, {})
        ELSE IF isdir(f, source.v) /\ ~Truthy(recursive)
        THEN Done(RecursiveHint, f, Seen(f, source.v))
        ELSE Outcome(f,
                     IF isdir(f, source.v)
                     THEN copytree(f, source.v, destination.v)
                     ELSE copy2(f, source.v, destination.v),
                     Seen(f, source.v) \cup Seen(f, destination.v)
                         \cup (IF isdir(f, source.v)
                               THEN Tree(f, Resolve(f, source.v)) ELSE {}),
                     "Error copying file: ",
                     "Successfully copied " \o source.v \o " to " \o destination.v)

\* The divisor of _human_readable_size and the sizes below which a file is
\* hashed, a file entry lists matches and a matching line is cut
KiB == 1024
HashLimit == 104857600
MaxMatches == 5
MaxLineChars == 100

\* f"{n / d:.2f}" for naturals n and d, rounding the hundredths to nearest
Fixed2(n, d) ==
    LET h == (200 * n + d) \div (2 * d)
        frac == h % 100
    IN  ToString(h \div 100) \o "." \o (IF frac < 10 THEN "0" ELSE "") \o ToString(frac)

\* _human_readable_size: the loop over the units, size being n / d
RECURSIVE HumanSize(_, _, _)
HumanSize(n, d, units) ==
    IF Len(units) = 0 THEN Fixed2(n, d) \o " PB"
    ELSE IF n < KiB * d THEN Fixed2(n, d) \o " " \o Head(units)
    ELSE HumanSize(n, d * KiB, Tail(units))

human_readable_size(size) == HumanSize(size, 1, <<"B", "KB", "MB", "GB", "TB">>)

\* str(Path(p).absolute())
PathAbsolute(p) ==
    IF isabs(p) THEN PathStr(p)
    ELSE IF PathStr(p) = "." THEN Cwd
    ELSE Cwd \o "/" \o PathStr(p)

\* get_file_info; of the info it dumps, the times, the mode, the owner and
\* the digest are left to the collaborators and not modelled
get_file_info(f, args) ==
    LET file_path == Get(args, "path", Str("")) IN
    IF ~is_safe_path(file_path) THEN Done(RestrictedText, f, {})
    ELSE LET p == file_path.v IN
         IF ~exists(f, p) THEN Done("File not found: " \o p, f, Seen(f, p))
         ELSE Done("{\n  \"path\": \"" \o p
                     \o "\",\n  \"absolute_path\": \"" \o PathAbsolute(p)
                     \o "\",\n  \"type\": \""
                     \o (IF isdir(f, p) THEN "directory" ELSE "file")
                     \o "\",\n  \"size\": " \o ToString(st_size(f, p))
                     \o ",\n  \"size_readable\": \"" \o human_readable_size(st_size(f, p))
                     \o "\""
                     \o (IF isfile(f, p)
                         THEN ",\n  \"mime_type\": "
                              \o (IF guess_type(p) = "" THEN "null"
                                  ELSE "\"" \o guess_type(p) \o "\"")
                              \o (IF st_size(f, p) < HashLimit
                                  THEN ",\n  \"md5\": \"...\"" ELSE "")
                         ELSE "")
                     \o "\n}",
                   f, Seen(f, p))

\* str.lower()
RECURSIVE lower(_)
lower(s) ==
    IF s = "" THEN ""
    ELSE IF Len(s) = 1
    THEN (IF Find(Upper, s, 1) = 0 THEN s
          ELSE SubSeq(Lower, Find(Upper, s, 1), Find(Upper, s, 1)))
    ELSE lower(SubSeq(s, 1, Len(s) \div 2)) \o lower(From(s, Len(s) \div 2 + 1))

\* str.strip()
IsSpace(c) == c = " " \/ c = "\n" \/ c = "\r"
RECURSIVE lstrip(_), rstrip(_)
lstrip(s) == IF s # "" /\ IsSpace(SubSeq(s, 1, 1)) THEN lstrip(From(s, 2)) ELSE s
rstrip(s) ==
    IF s # "" /\ IsSpace(SubSeq(s, Len(s), Len(s)))
    THEN rstrip(SubSeq(s, 1, Len(s) - 1)) ELSE s
strip(s) == lstrip(rstrip(s))

\* s[:n]
Truncate(s, n) == IF Len(s) <= n THEN s ELSE SubSeq(s, 1, n)

\* The loop of search_files over the lines of one file: matching_lines
RECURSIVE MatchingLines(_, _, _)
MatchingLines(lines, i, search_pattern) ==
    IF i > Len(lines) THEN <<>>
    ELSE (IF Contains(lower(lines[i]), lower(search_pattern))
          THEN <<[line_number |-> i,
                  content |-> Truncate(strip(lines[i]), MaxLineChars)]>>
          ELSE <<>>)
         \o MatchingLines(lines, i + 1, search_pattern)

\* search_files without the limit on the matches of a file
AllMatches(matching_lines) == matching_lines


\* matching_lines[:5]
FirstMatches(matching_lines) ==
    SubSeq(matching_lines, 1,
           IF Len(matching_lines) < MaxMatches THEN Len(matching_lines) ELSE MaxMatches)

\* The text f.read() yields for a file opened with errors='ignore'
ReadIgnore(f, p) == UniversalNewlines(DecodeIgnore(f[Resolve(f, p)].data))

\* search_files with an entry for every regular file, whatever its text
SearchResultsListingEveryFile(f, files, search_pattern) ==
    FlatMap(LAMBDA p :
                IF ~isfile(f, p) \/ search_pattern.t # "str" THEN <<>>
                ELSE <<[file |-> p,
                        matches |-> FirstMatches(
                            MatchingLines(Split(ReadIgnore(f, p), "\n"), 1,
                                          search_pattern.v))]>>,
            files)


\* The results list search_files builds; a search pattern that is not a str
\* raises inside the inner try and every file is passed over
SearchResults(f, files, search_pattern) ==
    FlatMap(LAMBDA p :
                IF ~isfile(f, p) \/ search_pattern.t # "str" THEN <<>>
                ELSE LET content == ReadIgnore(f, p) IN
                     IF ~Contains(lower(content), lower(search_pattern.v)) THEN <<>>
                     ELSE <<[file |-> p,
                             matches |-> FirstMatches(
                                 MatchingLines(Split(content, "\n"), 1,
                                               search_pattern.v))]>>,
            files)

\* json.dumps(results, indent=2) of search_files
RECURSIVE DumpMatches(_), DumpResults(_)
DumpMatches(matches) ==
    IF Len(matches) = 0 THEN ""
    ELSE "      {\n        \"line_number\": " \o ToString(Head(matches).line_number)
            \o ",\n        \"content\": \"" \o Head(matches).content \o "\"\n      }"
            \o (IF Len(matches) > 1 THEN ",\n" ELSE "\n")
            \o DumpMatches(Tail(matches))

DumpResults(results) ==
    IF Len(results) = 0 THEN ""
    ELSE "  {\n    \"file\": \"" \o Head(results).file \o "\",\n    \"matches\": "
            \o (IF Len(Head(results).matches) = 0 THEN "[]"
                ELSE "[\n" \o DumpMatches(Head(results).matches) \o "    ]")
            \o "\n  }" \o (IF Len(results) > 1 THEN ",\n" ELSE "\n")
            \o DumpResults(Tail(results))

\* The result search_files returns for the results it gathered
Matches(results) ==
    IF Len(results) = 0 THEN "No matches found" ELSE "[\n" \o DumpResults(results) \o "]"

\* and for the paths the glob yielded
Found(f, files, search_pattern) ==
    Done(Matches(SearchResults(f, files, search_pattern)),
         f, UNION {Seen(f, files[i]) : i \in 1..Len(files)})

search_files(f, args) ==
    LET directory == Get(args, "directory", Str("."))
        search_pattern == Get(args, "pattern", Str(""))
        file_pattern == Get(args, "file_pattern", Str("*"))
    IN  IF ~is_safe_path(directory) THEN Done(RestrictedText, f, {})
        ELSE IF file_pattern.t # "str"
        THEN Done("Error searching files: join() argument must be str, bytes, or "
                      \o "os.PathLike object, not '" \o PyType(file_pattern) \o "'", f, {})
        ELSE LET search_path == join(join(directory.v, "**"), file_pattern.v)
             IN  Found(f, glob(f, search_path, TRUE), search_pattern)

(***************************************************************************)
(* The tool registry and the dispatcher.                                   *)
(***************************************************************************)
Schema(properties, required) ==
    [type |-> "object", properties |-> properties, required |-> required]

\* self.tools, in insertion order
tools ==
    << [name |-> "read_file", description |-> "Read contents of a file",
        inputSchema |-> Schema(<<"path", "encoding">>, <<"path">>)],
       [name |-> "write_file", description |-> "Write content to a file",
        inputSchema |-> Schema(<<"path", "content", "encoding", "append">>,
                               <<"path", "content">>)],
       [name |-> "list_files", description |-> "List files in a directory",
        inputSchema |-> Schema(<<"path", "pattern", "recursive">>, <<>>)],
       [name |-> "create_directory", description |-> "Create a directory",
        inputSchema |-> Schema(<<"path", "parents">>, <<"path">>)],
       [name |-> "delete_file", description |-> "Delete a file or directory",
        inputSchema |-> Schema(<<"path", "recursive">>, <<"path">>)],
       [name |-> "move_file", description |-> "Move or rename a file or directory",
        inputSchema |-> Schema(<<"source", "destination">>, <<"source", "destination">>)],
       [name |-> "copy_file", description |-> "Copy a file or directory",
        inputSchema |-> Schema(<<"source", "destination", "recursive">>,
                               <<"source", "destination">>)],
       [name |-> "get_file_info", description |-> "Get detailed information about a file",
        inputSchema |-> Schema(<<"path">>, <<"path">>)],
       [name |-> "search_files",
        description |-> "Search for files containing specific text",
        inputSchema |-> Schema(<<"directory", "pattern", "file_pattern">>, <<"pattern">>)] >>

\* handle_initialize as it would be without the server's identity
InitializeWithoutServerInfo ==
    [protocolVersion |-> "2024-11-05",
     capabilities |-> [tools |-> <<>>, resources |-> <<>>]]


handle_initialize ==
    [protocolVersion |-> "2024-11-05",
     capabilities |-> [tools |-> <<>>, resources |-> <<>>],
     serverInfo |-> [name |-> "file-manager", version |-> "1.0.0"]]

\* handle_list_tools as it would be were the registry walked backwards
ListToolsBackwards ==
    [tools |-> [i \in 1..Len(tools) |->
                   [name |-> tools[Len(tools) + 1 - i].name,
                    description |-> tools[Len(tools) + 1 - i].description,
                    inputSchema |-> tools[Len(tools) + 1 - i].inputSchema]]]


handle_list_tools ==
    [tools |-> [i \in 1..Len(tools) |->
                   [name |-> tools[i].name, description |-> tools[i].description,
                    inputSchema |-> tools[i].inputSchema]]]

\* The keys of tool_handlers as they would be were read_file left out
HandlersWithoutReadFile ==
    {"write_file", "list_files", "create_directory", "delete_file",
     "move_file", "copy_file", "get_file_info", "search_files"}


\* The keys of tool_handlers
tool_handlers ==
    {"read_file", "write_file", "list_files", "create_directory", "delete_file",
     "move_file", "copy_file", "get_file_info", "search_files"}

\* tool_handlers[name](arguments)
Invoke(name, f, arguments) ==
    CASE name = "read_file" -> read_file(f, arguments)
      [] name = "write_file" -> write_file(f, arguments)
      [] name = "list_files" -> list_files(f, arguments)
      [] name = "create_directory" -> create_directory(f, arguments)
      [] name = "delete_file" -> delete_file(f, arguments)
      [] name = "move_file" -> move_file(f, arguments)
      [] name = "copy_file" -> copy_file(f, arguments)
      [] name = "get_file_info" -> get_file_info(f, arguments)
      [] name = "search_files" -> search_files(f, arguments)

\* What a call of a dispatcher method comes to: the exception it raises
\* (raised, "" when it returns), the value it returns, the filesystem it
\* leaves, the paths acted on and the operation handler invoked ("none"
\* when none was).
Returned(result, f, touched, called) ==
    [raised |-> "", result |-> result, fs |-> f, touched |-> touched, called |-> called]
Raised(msg, f, called) ==
    [raised |-> msg, result |-> Null, fs |-> f, touched |-> {}, called |-> called]

\* handle_call_tool as it would be were a handler's failure raised instead of
\* returned as a text
HandledRaisingFailures(h, name) ==
    IF StartsWith(h.result.content[1].text, "Error")
    THEN Raised(h.result.content[1].text, h.fs, name)
    ELSE Returned(h.result, h.fs, h.touched, name)


\* return handler(arguments), h being what the handler returned
Handled(h, name) == Returned(h.result, h.fs, h.touched, name)

NoAttributeGet(x) == "'" \o PyType(x) \o "' object has no attribute 'get'"
Unhashable(x) == "unhashable type: '" \o PyType(x) \o "'"

UnknownTool(tool_name) ==
    [error |-> [code |-> -32601, message |-> "Unknown tool: " \o PyStr(tool_name)]]

handle_call_tool(f, request) ==
    LET params == Get(request, "params", EmptyObj) IN
    IF params.t # "obj" THEN Raised(NoAttributeGet(params), f, "none")
    ELSE LET tool_name == Get(params, "name", Null)
             arguments == Get(params, "arguments", EmptyObj)
         IN  IF tool_name.t \in {"list", "obj"}
             THEN Raised(Unhashable(tool_name), f, "none")
             ELSE IF tool_name.t = "str" /\ tool_name.v \in tool_handlers
             THEN IF arguments.t # "obj"
                  THEN Raised(NoAttributeGet(arguments), f, tool_name.v)
                  ELSE Handled(Invoke(tool_name.v, f, arguments), tool_name.v)
             ELSE Returned(UnknownTool(tool_name), f, {}, "none")

\* The responses of handle_request and run
ResultResponse(id, result) == [jsonrpc |-> "2.0", id |-> id, result |-> result]
ErrorResponse(id, code, message) ==
    [jsonrpc |-> "2.0", id |-> id, error |-> [code |-> code, message |-> message]]

\* The keys of handlers in handle_request
handlers == {"initialize", "tools/list", "tools/call"}

\* handle_request on a request that is a dict.  escaped is the exception
\* that leaves handle_request ("" when it returns response): the lookup
\* handlers.get(method) stands before the try.
\* Reply as it would be were the error member added to a response that
\* always carries a result member
ReplyWithBothMembers(id, r) ==
    [response |-> IF r.raised = "" THEN ResultResponse(id, r.result)
                  ELSE [jsonrpc |-> "2.0", id |-> id, result |-> Null,
                        error |-> [code |-> -32603, message |-> r.raised]],
     fs |-> r.fs, touched |-> r.touched, called |-> r.called]

\* Reply as it would be were the exception answered as run answers one:
\* without the request's id
ReplyWithoutId(id, r) ==
    [response |-> IF r.raised = "" THEN ResultResponse(id, r.result)
                  ELSE ErrorResponse(Null, -32603, r.raised),
     fs |-> r.fs, touched |-> r.touched, called |-> r.called]


\* The try block of handle_request around result = handler(request), r
\* being what the handler returned or raised
Reply(id, r) ==
    [response |-> IF r.raised = "" THEN ResultResponse(id, r.result)
                  ELSE ErrorResponse(id, -32603, r.raised),
     fs |-> r.fs, touched |-> r.touched, called |-> r.called]

handle_request(f, request) ==
    LET method == Get(request, "method", Null)
        id == Get(request, "id", Null)
    IN  IF method.t = "str" /\ method.v \in handlers
        THEN Reply(id, CASE method.v = "initialize" ->
                               Returned(handle_initialize, f, {}, "none")
                        [] method.v = "tools/list" ->
                               Returned(handle_list_tools, f, {}, "none")
                        [] method.v = "tools/call" -> handle_call_tool(f, request))
        ELSE [response |-> ErrorResponse(id, -32601,
                                         "Method not found: " \o PyStr(method)),
              fs |-> f, touched |-> {}, called |-> "none"]

(***************************************************************************)
(* The input lines the caller may send.                                    *)
(***************************************************************************)
\* The text of a line is kept as what json.loads makes of it: a line that is
\* no JSON document and raises JSONDecodeError, a line of opening brackets
\* nested deeper than the decoder recurses, which is no JSON document either
\* and raises RecursionError, or the value the line parses to.
Garbage == [kind |-> "garbage", value |-> Null]
TooDeep == [kind |-> "deep", value |-> Null]
Json(value) == [kind |-> "json", value |-> value]

\* The sets of dict members {key: v} for v in values, and {} when the key may
\* be left out
Member(key, values) == {key :> v : v \in values}
Optional(key, values) == {<<>>} \cup Member(key, values)

\* All unions of one member from each of two / three families
Both(A, B) == {a @@ b : a \in A, b \in B}
All3(A, B, C) == Both(Both(A, B), C)

Strs(S) == {Str(x) : x \in S}

\* The filesystem the server starts on
InitFs ==
    ("/" :> Dir) @@ ("/etc" :> Dir) @@ ("/etc/passwd" :> File(Encode("root:x\n")))
    @@ ("/dev" :> Dir) @@ (StdinPath :> Pipe(<<>>))
    @@ ("/tmp" :> Dir) @@ ("/tmp/a" :> Dir)
    @@ ("/tmp/a/f.txt" :> File(Encode("Hi\nhi there\n")))
    @@ ("/tmp/a/s" :> Dir) @@ ("/tmp/a/s/g.txt" :> File(Encode("go")))
    @@ ("/tmp/p.png" :> File(<<137, 80>>))

\* The arguments of the tool calls sent
ReadArgs ==
    Member("path", Strs({"/etc/passwd", "/tmp/a/f.txt", "/tmp/n.txt", "/tmp/p.png",
                         "/tmp/a", StdinPath}) \cup {Num(5)})
    \cup Both(Member("path", Strs({"/tmp/a/f.txt", "/tmp/n.txt"})),
              Member("encoding", {Str("ascii"), Str("bogus"), Num(5)}))
    \cup {<<>>}

\* A text of nine lines, seven of which hold "hi" in some case, the first of
\* them longer than 100 characters
LongLine ==
    "Hi xxxxxxxxxxxxxxxxxxxxxxxxxxxxxxxxxxxxxxxxxxxxxxxxxxxxxxxxxxxxxxxxxxxxxxxxxxxxxxxxxxxxxxxxxxxxxxxxxxyz"
ManyLines == "none\n" \o LongLine \o "\n  hi  \nHI\nhi\nhI\nno\nhi\nhi"


WriteArgs ==
    All3(Member("path", Strs({"/etc/x", "/tmp/a/f.txt", "/tmp/n.txt", "/tmp/p.png",
                              "/tmp/a", "/tmp/q/n.txt"})),
         Member("content", Strs({"", "hi", "a\r\nb"}) \cup {Num(5)}),
         Optional("append", {Bool(TRUE)}))
    \cup All3(Member("path", Strs({"/tmp/a/f.txt", "/tmp/n.txt"})),
              Member("content", {Str("hi")}),
              Member("encoding", {Str("ascii"), Str("bogus")}))
    \cup Both(Member("path", {Str("/tmp/a/m.txt")}), Member("content", {Str(ManyLines)}))
    \cup Both(Member("path", {Str("/etc2/x")}), Member("content", {Str("hi")}))

ListArgs ==
    All3(Optional("path", Strs({"/etc", "/tmp/a"})),
         Optional("pattern", Strs({"*.txt", "../etc/*", "/etc/*"}) \cup {Num(5)}),
         Optional("recursive", {Bool(TRUE)}))

CreateArgs ==
    Both(Member("path", Strs({"/etc/d", "/tmp/a", "/tmp/a/f.txt", "/tmp/b", "/tmp/b/c",
                              ""}) \cup {Num(5)}),
         Optional("parents", {Bool(FALSE)}))

DeleteArgs ==
    Both(Member("path", Strs({"/etc/passwd", "/etc", "/tmp/a", "/tmp/a/f.txt", "/tmp/a/s",
                              "/tmp/a/s/.", "/tmp/n.txt", "/tmp/b"})),
         Optional("recursive", {Bool(TRUE)}))

MoveArgs ==
    Both(Member("source", Strs({"/etc/passwd", "/tmp/a", "/tmp/a/f.txt", "/tmp/n.txt"})),
         Member("destination", Strs({"/etc/x", "/tmp/b", "/tmp/a", "/tmp/a/in"})))

CopyArgs ==
    All3(Member("source", Strs({"/etc", "/tmp/a", "/tmp/a/f.txt", "/tmp/n.txt"})),
         Member("destination", Strs({"/etc/x", "/tmp/b", "/tmp/a", "/tmp/a/in",
                                     "/tmp/b/c"})),
         Optional("recursive", {Bool(TRUE)}))

InfoArgs ==
    Member("path", Strs({"/etc/passwd", "/tmp/a", "/tmp/a/f.txt", "/tmp/a/s",
                         "/tmp/a/s/g.txt", "/tmp/n.txt", "/tmp/b"}))

SearchArgs ==
    All3(Optional("pattern", {Str("hi"), Num(5)}),
         Optional("directory", Strs({"/etc", "/tmp/a"})),
         Optional("file_pattern", Strs({"g*", "/etc/*", "../../etc/*"})))
    \cup Both(Member("pattern", {Str("Hi\nhi")}), Member("directory", {Str("/tmp/a")}))

ArgsOf(name) ==
    CASE name = "read_file" -> ReadArgs
      [] name = "write_file" -> WriteArgs
      [] name = "list_files" -> ListArgs
      [] name = "create_directory" -> CreateArgs
      [] name = "delete_file" -> DeleteArgs
      [] name = "move_file" -> MoveArgs
      [] name = "copy_file" -> CopyArgs
      [] name = "get_file_info" -> InfoArgs
      [] name = "search_files" -> SearchArgs

\* A well-formed tools/call request
ToolCall(id, name, args) ==
    Json(Obj(("jsonrpc" :> Str("2.0")) @@ ("id" :> id) @@ ("method" :> Str("tools/call"))
             @@ ("params" :> Obj(("name" :> Str(name)) @@ ("arguments" :> Obj(args))))))

ToolCalls ==
    UNION {{ToolCall(Num(7), name, args) : args \in ArgsOf(name)} : name \in tool_handlers}

\* Requests that exercise the dispatcher: any method or none, any id or
\* none, and tools/call with params, name or arguments absent or ill-typed
ProtocolLines ==
    {Json(Obj(m)) :
        m \in All3(Optional("id", {Null, Num(7), Str("x")}),
                   Optional("method", Strs({"initialize", "tools/list", "tools/call",
                                            "resources/list"}) \cup {List(<<>>), Num(5)}),
                   {<<>>})}
    \cup {Json(Obj(m @@ ("method" :> Str("tools/call")))) :
            m \in Both(Optional("id", {Num(7)}),
                       Member("params",
                              {Null, Str("x"), EmptyObj,
                               Obj("name" :> Str("not_a_tool")),
                               Obj(("name" :> Str("not_a_tool"))
                                   @@ ("arguments" :> List(<<>>))),
                               Obj(("name" :> Num(5)) @@ ("arguments" :> EmptyObj)),
                               Obj("name" :> List(<<>>)),
                               Obj("name" :> Str("read_file")),
                               Obj(("name" :> Str("read_file"))
                                   @@ ("arguments" :> List(<<>>))),
                               Obj(("name" :> Str("write_file"))
                                   @@ ("arguments" :> Null))}))}

Lines == {Garbage, TooDeep, Json(List(<<>>)), Json(Num(5))} \cup ProtocolLines \cup ToolCalls

(***************************************************************************)
(* The request loop.                                                       *)
(***************************************************************************)
\* ---- The URL scraper (src/url_scraper_mcp_fixed.py) ----

\* The most anchors a page of the model has
MaxAnchors == 3

\* re.sub(r"\s+", " ", text): every run of whitespace becomes one space
RECURSIVE CollapseSpace(_)
CollapseSpace(text) ==
    IF text = "" THEN ""
    ELSE IF IsSpace(SubSeq(text, 1, 1))
    THEN " " \o CollapseSpace(lstrip(text))
    ELSE SubSeq(text, 1, 1) \o CollapseSpace(From(text, 2))

\* _clean_text
clean_text(text) == strip(CollapseSpace(text))

\* max(0, int(n))
AtLeastZero(n) == IF n < 0 THEN 0 ELSE n

\* str(httpx.URL(base).join(href)) for the hrefs of the model: an absolute
\* URL stands for itself, a path replaces the path of the base
url_join(base, href) ==
    IF StartsWith(href, "http://") \/ StartsWith(href, "https://") THEN href
    ELSE IF Find(base, "/", 8) = 0 THEN base \o href
    ELSE SubSeq(base, 1, Find(base, "/", 8) - 1) \o href

\* The loop of scrape_url over soup.find_all("a", href=True), links being the
\* list built so far: the anchor is appended when its href is not empty, and
\* only then is the length compared with the limit
RECURSIVE LinksLoop(_, _, _, _)
LinksLoop(anchors, links, final_url, max_links) ==
    IF Len(anchors) = 0 THEN links
    ELSE IF Len(IF Head(anchors).href # ""
                THEN Append(links, [url |-> url_join(final_url, Head(anchors).href),
                                    text |-> clean_text(Head(anchors).text)])
                ELSE links) >= AtLeastZero(max_links)
    THEN IF Head(anchors).href # ""
         THEN Append(links, [url |-> url_join(final_url, Head(anchors).href),
                             text |-> clean_text(Head(anchors).text)])
         ELSE links
    ELSE LinksLoop(Tail(anchors),
                   IF Head(anchors).href # ""
                   THEN Append(links, [url |-> url_join(final_url, Head(anchors).href),
                                       text |-> clean_text(Head(anchors).text)])
                   ELSE links,
                   final_url, max_links)

\* What client.get(url) comes to: httpx.RequestError, or a response, given
\* with what the HTML parser makes of its text: the title string, the
\* visible text and the anchors that carry an href attribute
RequestError(name, msg) == [kind |-> "error", name |-> name, msg |-> msg]
Response(final_url, status_code, content_type, text, title, visible, anchors) ==
    [kind |-> "response", url |-> final_url, status_code |-> status_code,
     content_type |-> content_type, text |-> text, title |-> title,
     visible |-> visible, anchors |-> anchors]

\* scrape_url: the exception raised ("" when it returns) and the dict returned
scrape_url(url, max_chars, max_links, got) ==
    IF url.t # "str" \/ url.v = ""
    THEN [raised |-> "url must be a non-empty string", result |-> Null]
    ELSE IF ~(StartsWith(lower(url.v), "http://") \/ StartsWith(lower(url.v), "https://"))
    THEN [raised |-> "Only http(s) URLs are supported", result |-> Null]
    ELSE IF got.kind = "error"
    THEN [raised |-> "",
          result |-> [url |-> url.v, final_url |-> Null, status_code |-> Null,
                      title |-> Null, content |-> "", links |-> <<>>,
                      error |-> "request_error: " \o got.name \o ": " \o got.msg]]
    ELSE IF Contains(lower(got.content_type), "html") /\ got.text # ""
    THEN [raised |-> "",
          result |-> [url |-> url.v, final_url |-> got.url,
                      status_code |-> got.status_code,
                      title |-> Str(clean_text(got.title)),
                      content |-> Truncate(clean_text(got.visible),
                                           AtLeastZero(max_chars)),
                      links |-> LinksLoop(got.anchors, <<>>, got.url, max_links)]]
    ELSE [raised |-> "",
          result |-> [url |-> url.v, final_url |-> got.url,
                      status_code |-> got.status_code, title |-> Null,
                      content |-> Truncate(got.text, 512), links |-> <<>>]]

\* No call of scrape_url
Idle == [pc |-> "idle"]

\* The anchors a page of the model may hold, in document order: an href may
\* be a path, an absolute URL or empty
Anchors ==
    {[href |-> h, text |-> t] : h \in {"", "/a", "https://o/b"}, t \in {" a  b "}}
Pages == UNION {[1..n -> Anchors] : n \in 0..MaxAnchors}

\* The calls of the model: the url, the limits and what the fetch comes to
ScrapeCalls ==
    {[pc |-> "called", url |-> u, max_chars |-> c, max_links |-> m, got |-> g] :
        u \in {Str("http://h/p")}, c \in {5}, m \in (0 - 1)..MaxAnchors,
        g \in {Response("http://h/p", 200, "text/html", "<html>", " T ", "one  two", p) :
                  p \in Pages}}
    \cup {[pc |-> "called", url |-> u, max_chars |-> c, max_links |-> 1, got |-> g] :
            u \in {Str(""), Num(5), Str("ftp://h"), Str("HTTPS://h/p")},
            c \in {0 - 1, 0, 5},
            g \in {RequestError("ConnectError", "refused"),
                   Response("https://h/q", 200, "text/plain", "plain", "", "", <<>>),
                   Response("https://h/q", 404, "TEXT/HTML", "", "", "", <<>>),
                   Response("https://h/q", 200, "text/html", "<a>", "", "x y z",
                            <<[href |-> "/a", text |-> "t"]>>)}}


\* ---- The Safety Gate taken alone ----

\* The working directories and the candidate paths of the model
GateDirs == {"/", "/tmp", "/etc", "/proc", "/home/etc"}
GatePaths ==
    Strs({"", "x", "passwd", "etc/x", "../etc/x", "./../sys", "/", "/etc", "/etc/x",
          "/etc2/x", "/sys/k", "/system", "/proc/1", "/tmp/../etc/x", "/tmp/etc",
          "//etc/x", "///etc/x", "/./etc/", "~", "~/x", "~/../etc", "~nouser/x",
          "/usr/etc", "/ETC/x", "C:\\Windows\\x", "C:\\Program Files"})
    \cup {Num(5), Null, Bool(TRUE), List(<<>>), EmptyObj}


VARIABLES
    pc,         \* where run stands: "read" at readline, "serve" with a line
                \* read and not yet answered, "done" after the loop
    stdin,      \* the lines read so far
    stdout,     \* the responses printed so far
    fs,         \* the filesystem
    pre,        \* bookkeeping: the filesystem before the last line was served
    touched,    \* bookkeeping: the paths the last line's handler acted on
    called,     \* bookkeeping: the operation handler the last line invoked
    eaten,      \* the input text that a handler, not readline, took from
                \* standard input
    scrape,     \* the URL scraper's tool: the call of scrape_url under way
                \* or returned, Idle in the file manager
    gate        \* the Safety Gate taken alone: the call of is_safe_path under
                \* way or returned, Idle when the server runs

vars == <<pc, stdin, stdout, fs, pre, touched, called, eaten, scrape, gate>>

\* The line being served
line == stdin[Len(stdin)]

Init ==
    /\ pc = "read"
    /\ stdin = <<>>
    /\ stdout = <<>>
    /\ fs = InitFs
    /\ pre = InitFs
    /\ touched = {}
    /\ called = "none"
    /\ eaten = ""
    /\ scrape = Idle
    /\ gate = Idle

\* line = sys.stdin.readline(), a line having arrived
ReadLine(l) ==
    /\ pc = "read"
    /\ Len(stdin) < MaxLines
    /\ stdin' = Append(stdin, l)
    /\ pc' = "serve"
    /\ UNCHANGED <<stdout, fs, pre, touched, called, eaten, scrape, gate>>

\* readline returns "" at end of stream: break
EndOfStream ==
    /\ pc = "read"
    /\ pc' = "done"
    /\ UNCHANGED <<stdin, stdout, fs, pre, touched, called, eaten, scrape, gate>>

\* json.loads raises JSONDecodeError: the -32700 response
ParseError ==
    /\ pc = "serve"
    /\ line.kind = "garbage"
    /\ stdout' = Append(stdout, ErrorResponse(Null, -32700,
                            "Parse error: Expecting value: line 1 column 1 (char 0)"))
    /\ pc' = "read"
    /\ pre' = fs
    /\ touched' = {}
    /\ called' = "none"
    /\ UNCHANGED <<stdin, fs, eaten, scrape, gate>>

\* The exception other than JSONDecodeError that a line raises in the try
\* block of run, "" when there is none: the RecursionError of json.loads,
\* request.get on a value that is no dict, and handlers.get(method), outside
\* the try of handle_request, on a method that cannot be hashed
Escaping(l) ==
    IF l.kind = "deep"
    THEN "maximum recursion depth exceeded while decoding a JSON array "
             \o "from a unicode string"
    ELSE IF l.kind # "json" THEN ""
    ELSE IF l.value.t # "obj" THEN NoAttributeGet(l.value)
    ELSE IF Get(l.value, "method", Null).t \in {"list", "obj"}
    THEN Unhashable(Get(l.value, "method", Null))
    ELSE ""

\* except Exception in run: the -32603 response with id None
InternalError ==
    /\ pc = "serve"
    /\ Escaping(line) # ""
    /\ stdout' = Append(stdout, ErrorResponse(Null, -32603,
                            "Internal error: " \o Escaping(line)))
    /\ pc' = "read"
    /\ pre' = fs
    /\ touched' = {}
    /\ called' = "none"
    /\ UNCHANGED <<stdin, fs, eaten, scrape, gate>>

\* A request the client has written after the line being served
LaterText == "{\"id\": 7, \"method\": \"initialize\"}\n"

\* The text that may lie unread on standard input, behind what readline has
\* buffered, while the line l is served: nothing, or a later request.  Only
\* a request that names /dev/stdin can tell the difference.
Unread(l) ==
    IF l.kind = "json" /\ l.value.t = "obj"
          /\ Get(l.value, "method", Null) = Str("tools/call")
          /\ Get(l.value, "params", EmptyObj).t = "obj"
          /\ Get(Get(l.value, "params", EmptyObj), "arguments", EmptyObj).t = "obj"
          /\ Get(Get(Get(l.value, "params", EmptyObj), "arguments", EmptyObj),
                 "path", Null) = Str(StdinPath)
    THEN {"", LaterText}
    ELSE {""}

\* The filesystem with that text in the pipe
Arrived(f, text) == [f EXCEPT ![StdinPath].data = Encode(text)]

\* print(json.dumps(response)), r being what handle_request came to while
\* text lay unread on standard input: what a handler read from the pipe is
\* lost to readline, what it left is still to be read
Emit(r, text) ==
    /\ stdout' = Append(stdout, r.response)
    /\ fs' = [r.fs EXCEPT ![StdinPath].data = <<>>]
    /\ eaten' = eaten \o (IF r.fs[StdinPath].data = <<>> THEN text ELSE "")
    /\ touched' = r.touched
    /\ called' = r.called

\* response = self.handle_request(request); print(json.dumps(response))
Respond ==
    /\ pc = "serve"
    /\ line.kind = "json"
    /\ Escaping(line) = ""
    /\ \E text \in Unread(line) : Emit(handle_request(Arrived(fs, text), line.value), text)
    /\ pc' = "read"
    /\ pre' = fs
    /\ UNCHANGED <<stdin, scrape, gate>>

Next ==
    \/ \E l \in Lines : ReadLine(l)
    \/ EndOfStream
    \/ ParseError
    \/ InternalError
    \/ Respond

Spec == Init /\ [][Next]_vars

(***************************************************************************)
(* The properties.  Lines and responses are paired by position: stdout[i]  *)
(* answers stdin[i].                                                       *)
(***************************************************************************)
\* The last line read has been answered
Answered == pc = "read" /\ stdin # <<>>

\* The response to the last line read, once it is answered
response == stdout[Len(stdout)]

IsError(r, code) == "error" \in DOMAIN r /\ r.error.code = code
IsResult(r) == "result" \in DOMAIN r

\* The line parsed to a request object
IsRequest(l) == l.kind = "json" /\ l.value.t = "obj"

\* The line is a tools/call request with a params object
IsToolsCall(l) ==
    /\ IsRequest(l)
    /\ Get(l.value, "method", Null) = Str("tools/call")
    /\ Get(l.value, "params", EmptyObj).t = "obj"

NameOf(l) == Get(Get(l.value, "params", EmptyObj), "name", Null)
ArgumentsOf(l) == Get(Get(l.value, "params", EmptyObj), "arguments", EmptyObj)

\* The line calls the registered tool name with an arguments object
Calls(l, name) ==
    IsToolsCall(l) /\ NameOf(l) = Str(name) /\ ArgumentsOf(l).t = "obj"

\* The text of a tool result response
TextOf(r) == r.result.content[1].text

\* C1: a tools/call request whose params.name is missing or is no registered
\* tool name is answered with a top-level error of code -32601 and no
\* top-level result, and no operation handler is invoked.
C1_UnknownToolIsProtocolError ==
    (Answered /\ IsToolsCall(line)
       /\ (NameOf(line) = Null
           \/ (NameOf(line).t = "str" /\ NameOf(line).v \notin tool_handlers)))
    => /\ IsError(response, -32601)
       /\ ~IsResult(response)
       /\ called = "none"

\* C2: every line that is not valid JSON is answered by one response with
\* error code -32700 and id null, and the loop goes on to the next line.
C2_InvalidJsonIsParseError ==
    /\ Len(stdout) = Len(stdin) - (IF pc = "serve" THEN 1 ELSE 0)
    /\ \A i \in 1..Len(stdout) :
           stdin[i].kind # "json" => IsError(stdout[i], -32700) /\ stdout[i].id = Null
    /\ (Answered /\ line.kind # "json" /\ Len(stdin) < MaxLines)
           => ENABLED (\E l \in Lines : ReadLine(l))

\* C3: one response per line read, in the order of the lines, the line read
\* being answered before the next is read, and the response to every request
\* object carries the id of that request, null when it has none.
C3_OneResponsePerLineWithItsId ==
    /\ Len(stdout) = Len(stdin) - (IF pc = "serve" THEN 1 ELSE 0)
    /\ \A i \in 1..Len(stdout) :
           IsRequest(stdin[i]) => stdout[i].id = Get(stdin[i].value, "id", Null)

\* C4: every response written has jsonrpc "2.0", an id member, and exactly
\* one of the members result and error.
C4_ResponseShape ==
    \A i \in 1..Len(stdout) :
        /\ {"jsonrpc", "id"} \subseteq DOMAIN stdout[i]
        /\ stdout[i].jsonrpc = "2.0"
        /\ ("result" \in DOMAIN stdout[i]) # ("error" \in DOMAIN stdout[i])

\* Responses of both shapes have been written: the -32603 of a handler that
\* raised, and the result of a tool call that changed the filesystem
C4_Witness ==
    /\ Len(stdout) = 2
    /\ IsError(stdout[1], -32603) /\ stdout[1].id = Num(7)
    /\ IsResult(stdout[2]) /\ called # "none" /\ fs # pre

\* The path-valued arguments of a tool and the default of a missing one
PathArguments(name) ==
    CASE name \in {"move_file", "copy_file"} -> {"source", "destination"}
      [] name = "search_files" -> {"directory"}
      [] OTHER -> {"path"}
DefaultPath(name) == IF name \in {"list_files", "search_files"} THEN "." ELSE ""

PathArgument(name, args, key) == Get(args, key, Str(DefaultPath(name)))

\* Some path-valued argument of the call fails the Safety Gate
FailsGate(name, args) ==
    \E key \in PathArguments(name) : ~is_safe_path(PathArgument(name, args, key))

\* C5: a call of any of the nine tools with a path-valued argument that fails
\* the Safety Gate (either one, for move_file and copy_file) is answered with
\* the restricted-access text as a normal result, nothing is raised, and the
\* filesystem is neither read nor changed.
C5_GateShortCircuits ==
    \A name \in tool_handlers :
        (Answered /\ Calls(line, name) /\ FailsGate(name, ArgumentsOf(line)))
        => /\ response = ResultResponse(Get(line.value, "id", Null),
                                        TextResult(RestrictedText))
           /\ called = name
           /\ touched = {}
           /\ fs = pre

\* move_file was called with a safe source that exists and a deny-listed
\* destination, and answered the restricted-access text
C5_Witness ==
    /\ Answered /\ Calls(line, "move_file")
    /\ is_safe_path(PathArgument("move_file", ArgumentsOf(line), "source"))
    /\ ~is_safe_path(PathArgument("move_file", ArgumentsOf(line), "destination"))
    /\ exists(pre, PathArgument("move_file", ArgumentsOf(line), "source").v)
    /\ TextOf(response) = RestrictedText
    /\ called = "move_file"

\* C6: no path a handler reads, lists, stats or changes has an absolute form
\* that begins with a deny-listed prefix, the paths list_files and
\* search_files get by joining the gated directory with the caller's pattern
\* included.
C6_NoDeniedPathActedOn == \A q \in touched : ~Denied(q)

\* The text of response r reports a success
Succeeded(r) == IsResult(r) /\ StartsWith(TextOf(r), "Successfully")

\* C7: write_file(path, content) followed by read_file(path) with the same
\* encoding returns exactly that content, for a safe path and a text content;
\* taken here for a write that reports success to a path read_file reads as
\* text.
C7_WriteThenReadRoundTrip ==
    (/\ Len(stdin) = 2 /\ Answered
     /\ Calls(stdin[1], "write_file") /\ Calls(stdin[2], "read_file")
     /\ LET w == ArgumentsOf(stdin[1])
            r == ArgumentsOf(stdin[2])
        IN  /\ is_safe_path(Get(w, "path", Null))
            /\ Get(r, "path", Null) = Get(w, "path", Null)
            /\ Get(r, "encoding", Str("utf-8")) = Get(w, "encoding", Str("utf-8"))
            /\ Get(w, "content", Null).t = "str"
            /\ ~Truthy(Get(w, "append", Bool(FALSE)))
            /\ ~IsBinaryMime(guess_type(Get(w, "path", Null).v))
     /\ Succeeded(stdout[1]))
    => /\ IsResult(stdout[2])
       /\ TextOf(stdout[2]) = Get(ArgumentsOf(stdin[1]), "content", Null).v

\* The paths the leading components of p name, p itself included
Prefixes(p) ==
    {Join(SubSeq(Split(p, "/"), 1, n), "/") : n \in 1..Len(Split(p, "/"))} \ {""}

\* Some leading part of p, or p itself, exists and is no directory
BlockedByFile(f, p) == \E q \in Prefixes(p) : exists(f, q) /\ ~isdir(f, q)

\* The same create_directory call on a safe path was sent twice, with parents
\* true or the path a directory from the start
CreatedTwice ==
    /\ Len(stdin) = 2 /\ Answered
    /\ Calls(stdin[1], "create_directory") /\ stdin[2] = stdin[1]
    /\ is_safe_path(Get(ArgumentsOf(stdin[1]), "path", Str("")))
    /\ \/ Truthy(Get(ArgumentsOf(stdin[1]), "parents", Bool(TRUE)))
       \/ isdir(InitFs, Get(ArgumentsOf(stdin[1]), "path", Str("")).v)

\* C8 as claimed: when parents is true or the directory already exists,
\* create_directory called twice on the same safe path reports success both
\* times and the second call leaves the filesystem as the first left it.
C8_CreateDirectoryTwice ==
    CreatedTwice => Succeeded(stdout[1]) /\ Succeeded(stdout[2]) /\ fs = pre

\* C8: the same, for a path none of whose leading parts, nor the path
\* itself, exists as something other than a directory.
C8_CreateDirectoryIdempotent ==
    (CreatedTwice
       /\ ~BlockedByFile(InitFs, PathStr(Get(ArgumentsOf(stdin[1]), "path", Str("")).v)))
    => Succeeded(stdout[1]) /\ Succeeded(stdout[2]) /\ fs = pre

\* A directory and its missing parent were created by the first call and
\* the second call reported success
C8_Witness ==
    /\ CreatedTwice
    /\ ~exists(InitFs, PathParent(PathStr(Get(ArgumentsOf(stdin[1]), "path", Str("")).v)))
    /\ isdir(fs, Get(ArgumentsOf(stdin[1]), "path", Str("")).v)
    /\ Succeeded(stdout[2])

\* copy_file was called on a source that is a directory, with the recursive
\* flag as given
CopiedDirectory(recursive) ==
    /\ Answered /\ Calls(line, "copy_file")
    /\ Get(ArgumentsOf(line), "source", Str("")).t = "str"
    /\ Get(ArgumentsOf(line), "destination", Str("")).t = "str"
    /\ isdir(pre, Get(ArgumentsOf(line), "source", Str("")).v)
    /\ Truthy(Get(ArgumentsOf(line), "recursive", Bool(FALSE))) = recursive

BothSafe ==
    /\ is_safe_path(Get(ArgumentsOf(line), "source", Str("")))
    /\ is_safe_path(Get(ArgumentsOf(line), "destination", Str("")))

\* C9 as claimed: copy_file on a source that is a directory, with recursive
\* omitted or false, answers the text telling the caller to use recursive
\* and copies nothing.
C9_DirectoryCopyGuard ==
    CopiedDirectory(FALSE)
    => IsResult(response) /\ TextOf(response) = RecursiveHint /\ fs = pre

\* C9: the same, for a source and a destination that both pass the Safety
\* Gate; when one of them does not, the answer is the restricted-access
\* text, and nothing is copied either.
C9_DirectoryCopyGuardBehindGate ==
    CopiedDirectory(FALSE)
    => /\ IsResult(response)
       /\ TextOf(response) = (IF BothSafe THEN RecursiveHint ELSE RestrictedText)
       /\ fs = pre

\* A directory with entries was the source of a copy without recursive, to
\* a destination that does not exist, and the hint was the answer
C9_Witness ==
    /\ CopiedDirectory(FALSE) /\ BothSafe
    /\ Entries(pre, Resolve(pre, Get(ArgumentsOf(line), "source", Str("")).v)) # {}
    /\ ~exists(pre, Get(ArgumentsOf(line), "destination", Str("")).v)
    /\ TextOf(response) = RecursiveHint

\* What lies beneath directory d of f: the nodes, by their paths relative to d
Image(f, d) ==
    [rel \in {From(q, Len(d) + 1) : q \in Tree(f, d)} |-> f[d \o rel]]

\* The recursive copy did what is claimed: success is reported, the
\* destination is a directory holding what the source held, and the source
\* holds what it held
Reproduced ==
    LET src == Get(ArgumentsOf(line), "source", Str("")).v
        dst == Get(ArgumentsOf(line), "destination", Str("")).v
    IN  /\ Succeeded(response)
        /\ isdir(fs, dst) /\ isdir(fs, src)
        /\ Image(fs, Resolve(fs, dst)) = Image(pre, Resolve(pre, src))
        /\ Image(fs, Resolve(fs, src)) = Image(pre, Resolve(pre, src))

\* C10 as claimed: copy_file(dirA, dirB) with recursive true reports success,
\* leaves in dirB the files, nested directories and bytes of dirA, and leaves
\* dirA unchanged.
C10_RecursiveCopyReproducesTree == CopiedDirectory(TRUE) => Reproduced

\* C10: the same, for paths that both pass the Safety Gate and a dirB that
\* does not exist, does not lie inside dirA, and has no leading part that is
\* a file.
C10_RecursiveCopyToFreshPlace ==
    (/\ CopiedDirectory(TRUE) /\ BothSafe
     /\ LET src == Get(ArgumentsOf(line), "source", Str("")).v
            dst == Get(ArgumentsOf(line), "destination", Str("")).v
        IN  /\ ~exists(pre, dst)
            /\ ~BlockedByFile(pre, dst)
            /\ abspath(dst) # Resolve(pre, src)
            /\ ~Beneath(abspath(dst), Resolve(pre, src)))
    => Reproduced

\* A directory holding a file and a nested directory with a file of its own
\* was copied to a path whose parent did not exist either
C10_Witness ==
    /\ CopiedDirectory(TRUE) /\ Reproduced
    /\ ~exists(pre, dirname(Get(ArgumentsOf(line), "destination", Str("")).v))
    /\ \E q \in Tree(fs, Resolve(fs, Get(ArgumentsOf(line), "destination", Str("")).v)) :
           /\ fs[q].type = "file" /\ fs[q].data # <<>>
           /\ fs[Parent(q)].type = "dir"
           /\ Parent(q) # Resolve(fs, Get(ArgumentsOf(line), "destination", Str("")).v)

\* The text of response r narrates an error
SoftError(r) == IsResult(r) /\ StartsWith(TextOf(r), "Error")

\* delete_file was called on a path that is a directory, with the recursive
\* flag as given
DeletedDirectory(recursive) ==
    /\ Answered /\ Calls(line, "delete_file")
    /\ Get(ArgumentsOf(line), "path", Str("")).t = "str"
    /\ isdir(pre, Get(ArgumentsOf(line), "path", Str("")).v)
    /\ Truthy(Get(ArgumentsOf(line), "recursive", Bool(FALSE))) = recursive

\* C11: delete_file on a directory that has entries, with recursive omitted
\* or false, answers a soft error and removes nothing: the directory and all
\* that is beneath it are as they were.
C11_NonEmptyDeleteGuard ==
    (/\ DeletedDirectory(FALSE)
     /\ Entries(pre, Resolve(pre, Get(ArgumentsOf(line), "path", Str("")).v)) # {})
    => SoftError(response) /\ fs = pre

\* A safe directory holding a file and a nested directory was the target,
\* os.rmdir refused, and the directory still holds them
C11_Witness ==
    /\ DeletedDirectory(FALSE)
    /\ is_safe_path(Get(ArgumentsOf(line), "path", Str("")))
    /\ \E q \in Entries(fs, Resolve(fs, Get(ArgumentsOf(line), "path", Str("")).v)) :
           fs[q].type = "dir" /\ Entries(fs, q) # {}
    /\ StartsWith(TextOf(response), "Error deleting file: [Errno 39] Directory not empty")

\* The filesystem as the first line served left it
AfterFirst == IF Len(stdout) >= 2 THEN pre ELSE fs

\* The first line served was delete_file with a true recursive on a path that
\* passes the Safety Gate and named a directory
DeletedRecursively ==
    /\ Len(stdout) >= 1
    /\ Calls(stdin[1], "delete_file")
    /\ is_safe_path(Get(ArgumentsOf(stdin[1]), "path", Str("")))
    /\ isdir(InitFs, Get(ArgumentsOf(stdin[1]), "path", Str("")).v)
    /\ Truthy(Get(ArgumentsOf(stdin[1]), "recursive", Bool(FALSE)))

\* The directory the first line named and everything that was beneath it
Deleted ==
    {Resolve(InitFs, Get(ArgumentsOf(stdin[1]), "path", Str("")).v)}
        \cup Tree(InitFs, Resolve(InitFs, Get(ArgumentsOf(stdin[1]), "path", Str("")).v))

\* The second line served was get_file_info on one of the deleted paths
AskedAfterwards ==
    /\ Len(stdout) = 2
    /\ Calls(stdin[2], "get_file_info")
    /\ Get(ArgumentsOf(stdin[2]), "path", Str("")).t = "str"
    /\ Resolve(InitFs, Get(ArgumentsOf(stdin[2]), "path", Str("")).v) \in Deleted

\* C12: after delete_file with recursive=true on a directory (one that passes
\* the Safety Gate) the directory and everything that was beneath it are gone,
\* and a get_file_info request served afterwards on that path or on a path
\* that was beneath it gets the result text "File not found: <path>", not a
\* protocol error.
C12_RecursiveDeleteThenNotFound ==
    DeletedRecursively =>
        /\ Deleted \cap DOMAIN AfterFirst = {}
        /\ AskedAfterwards =>
               /\ IsResult(stdout[2])
               /\ TextOf(stdout[2])
                      = "File not found: " \o Get(ArgumentsOf(stdin[2]), "path", Str("")).v

\* The same for a directory that is not named through a last component "."
C12_RecursiveDeleteOfPlainPath ==
    (DeletedRecursively
        /\ LastComponent(Get(ArgumentsOf(stdin[1]), "path", Str("")).v) # ".") =>
        /\ Succeeded(stdout[1])
        /\ Deleted \cap DOMAIN AfterFirst = {}
        /\ AskedAfterwards =>
               /\ IsResult(stdout[2])
               /\ TextOf(stdout[2])
                      = "File not found: " \o Get(ArgumentsOf(stdin[2]), "path", Str("")).v

C12_Witness ==
    /\ DeletedRecursively
    /\ AskedAfterwards
    /\ Get(ArgumentsOf(stdin[1]), "path", Str("")) = Str("/tmp/a")
    /\ Get(ArgumentsOf(stdin[2]), "path", Str("")) = Str("/tmp/a/s/g.txt")
    /\ TextOf(stdout[2]) = "File not found: /tmp/a/s/g.txt"

\* The places where sub occurs in s
Occurrences(s, sub) ==
    {i \in 1..(Len(s) - Len(sub) + 1) : SubSeq(s, i, i + Len(sub) - 1) = sub}

\* The string that runs from place i of s up to the next double quote
Quoted(s, i) ==
    SubSeq(s, i, (CHOOSE j \in i..Len(s) :
                     /\ SubSeq(s, j, j) = "\""
                     /\ \A k \in i..(j - 1) : SubSeq(s, k, k) # "\"") - 1)

\* The "file" members of the entries in a search_files result text
FilesListed(text) ==
    {Quoted(text, i + 13) : i \in Occurrences(text, "    \"file\": \"")}

\* The entries of a search_files result text for the file p
EntriesFor(text, p) == Occurrences(text, "    \"file\": \"" \o p \o "\"")

SearchDirectory == Get(ArgumentsOf(line), "directory", Str("."))
SearchPattern == Get(ArgumentsOf(line), "pattern", Str(""))
FilePattern == Get(ArgumentsOf(line), "file_pattern", Str("*"))

\* The line served was search_files with a str pattern and a str file_pattern
\* on a directory that passes the Safety Gate
Searched ==
    /\ Answered /\ Calls(line, "search_files")
    /\ is_safe_path(SearchDirectory)
    /\ SearchPattern.t = "str" /\ FilePattern.t = "str"

\* The paths the glob of file_pattern under the directory yielded
Yielded == glob(pre, join(join(SearchDirectory.v, "**"), FilePattern.v), TRUE)

\* p is a regular file whose text holds the search pattern, case aside
HasPattern(p) ==
    /\ isfile(pre, p)
    /\ Contains(lower(UniversalNewlines(DecodeIgnore(pre[Resolve(pre, p)].data))),
                lower(SearchPattern.v))

\* The regular files beneath the directory, at any depth, whose name matches
\* a file_pattern that has no directory part
FilesBeneath ==
    {q \in Tree(pre, Resolve(pre, SearchDirectory.v)) :
        pre[q].type = "file" /\ fnmatch(basename(q), FilePattern.v)}

RECURSIVE ParseInt(_)
ParseInt(s) ==
    IF s = "" THEN 0
    ELSE 10 * ParseInt(SubSeq(s, 1, Len(s) - 1))
             + (Find(Digits, SubSeq(s, Len(s), Len(s)), 1) - 1)

\* The places of the "line_number" members in a search_files result text that
\* belong to the entry for the file p: those after the entry's "file" member
\* and before the next entry's
MatchPlaces(text, p) ==
    {i \in Occurrences(text, "        \"line_number\": ") :
        \E e \in EntriesFor(text, p) :
            /\ e < i
            /\ \A o \in Occurrences(text, "    \"file\": \"") : ~(e < o /\ o < i)}

\* The line number written at the place i
LineNumberAt(text, i) == ParseInt(SubSeq(text, i + 23, Find(text, ",", i) - 1))

\* The content string that follows the line number written at the place i
ContentAt(text, i) == Quoted(text, Find(text, ",", i) + 22)

\* The lines of the file p as search_files splits them
LinesOf(p) == Split(UniversalNewlines(DecodeIgnore(pre[Resolve(pre, p)].data)), "\n")

\* The 1-based indexes of the lines of p that hold the search pattern, case aside
MatchingIndexes(p) ==
    {n \in 1..Len(LinesOf(p)) : Contains(lower(LinesOf(p)[n]), lower(SearchPattern.v))}

\* C14: in every search_files result each file entry lists at most 5 matches;
\* their line numbers increase; each is the 1-based index of a line of the
\* file that holds the pattern, case aside; no matching line before a listed
\* one is left out (they are the first matching lines); and each content
\* string has at most 100 characters.
C14_MatchesAreTheFirstFive ==
    Searched =>
        \A p \in FilesListed(TextOf(response)) :
            /\ Cardinality(MatchPlaces(TextOf(response), p)) <= MaxMatches
            /\ Cardinality(MatchPlaces(TextOf(response), p)) = MaxMatches
                   \/ Cardinality(MatchPlaces(TextOf(response), p))
                          = Cardinality(MatchingIndexes(p))
            /\ \A i \in MatchPlaces(TextOf(response), p) :
                   /\ LineNumberAt(TextOf(response), i) \in MatchingIndexes(p)
                   /\ \A n \in MatchingIndexes(p) :
                          n < LineNumberAt(TextOf(response), i) =>
                              \E j \in MatchPlaces(TextOf(response), p) :
                                  j < i /\ LineNumberAt(TextOf(response), j) = n
                   /\ \A j \in MatchPlaces(TextOf(response), p) :
                          j < i => LineNumberAt(TextOf(response), j)
                                       < LineNumberAt(TextOf(response), i)
                   /\ Len(ContentAt(TextOf(response), i)) <= MaxLineChars

\* A search for "hi" finds /tmp/a/m.txt, written before with seven matching
\* lines: lines 2 to 6 are listed, the 103 characters of line 2 cut to 100
C14_Witness ==
    /\ Searched
    /\ SearchPattern = Str("hi")
    /\ "/tmp/a/m.txt" \in FilesListed(TextOf(response))
    /\ Cardinality(MatchingIndexes("/tmp/a/m.txt")) = 7
    /\ {LineNumberAt(TextOf(response), i) : i \in MatchPlaces(TextOf(response), "/tmp/a/m.txt")}
           = 2..6
    /\ \E i \in MatchPlaces(TextOf(response), "/tmp/a/m.txt") :
           /\ Len(LinesOf("/tmp/a/m.txt")[LineNumberAt(TextOf(response), i)]) = 103
           /\ Len(ContentAt(TextOf(response), i)) = 100
    /\ \E i \in MatchPlaces(TextOf(response), "/tmp/a/m.txt") :
           /\ LinesOf("/tmp/a/m.txt")[LineNumberAt(TextOf(response), i)] = "  hi  "
           /\ ContentAt(TextOf(response), i) = "hi"

\* The method of the request on the line, null when it has none
MethodOf(l) == Get(l.value, "method", Null)

\* C15: a request object whose method is none of initialize, tools/list and
\* tools/call (a missing method included) is answered with a top-level error
\* of code -32601 carrying the request's id; no handler is invoked and the
\* filesystem is neither read nor changed.
C15_OtherMethodIsNotFound ==
    (Answered /\ IsRequest(line)
        /\ MethodOf(line) \notin Strs({"initialize", "tools/list", "tools/call"}))
    => /\ IsError(response, -32601)
       /\ ~IsResult(response)
       /\ response.id = Get(line.value, "id", Null)
       /\ called = "none" /\ touched = {} /\ fs = pre

\* The same for a method that can be hashed: a string, a number, null or none
C15_OtherHashableMethodIsNotFound ==
    (Answered /\ IsRequest(line)
        /\ MethodOf(line).t \notin {"list", "obj"}
        /\ MethodOf(line) \notin Strs({"initialize", "tools/list", "tools/call"}))
    => /\ IsError(response, -32601)
       /\ ~IsResult(response)
       /\ response.id = Get(line.value, "id", Null)
       /\ called = "none" /\ touched = {} /\ fs = pre

\* The dispatch of the tools/call request on the line l calls .get on a value
\* that is no mapping: params, or the arguments handed to a registered tool
HasNoMapping(l) ==
    /\ IsRequest(l) /\ MethodOf(l) = Str("tools/call")
    /\ \/ Get(l.value, "params", EmptyObj).t # "obj"
       \/ /\ NameOf(l).t = "str" /\ NameOf(l).v \in tool_handlers
          /\ ArgumentsOf(l).t # "obj"

\* That value
NotAMapping(l) ==
    IF Get(l.value, "params", EmptyObj).t # "obj" THEN Get(l.value, "params", EmptyObj)
    ELSE ArgumentsOf(l)

\* C16: a tools/call request whose params, or whose arguments for a
\* registered tool, is not a mapping makes the dispatch raise AttributeError;
\* the response is a top-level error of code -32603 whose message is the
\* exception's text, it carries the request's id, the filesystem is as
\* before, and the server goes on: it is back at reading, any next line can
\* be read, and that line is answered in its turn.
C16_UncaughtExceptionIsInternalError ==
    /\ \A i \in 1..Len(stdout) :
           HasNoMapping(stdin[i]) =>
               /\ IsError(stdout[i], -32603)
               /\ ~IsResult(stdout[i])
               /\ stdout[i].error.message
                      = "'" \o PyType(NotAMapping(stdin[i])) \o "' object has no attribute 'get'"
               /\ stdout[i].id = Get(stdin[i].value, "id", Null)
    /\ (Answered /\ HasNoMapping(line)) =>
           /\ fs = pre
           /\ Len(stdin) < MaxLines => \A l \in Lines : ENABLED ReadLine(l)
    /\ (Len(stdin) > 1 /\ HasNoMapping(stdin[1]) /\ pc = "read") => Len(stdout) = Len(stdin)

\* A request with id 7 whose arguments is a list was answered, and the
\* request after it got its result
C16_Witness ==
    /\ Len(stdout) = 2
    /\ HasNoMapping(stdin[1])
    /\ NotAMapping(stdin[1]).t = "list"
    /\ stdout[1] = ErrorResponse(Num(7), -32603, "'list' object has no attribute 'get'")
    /\ IsResult(stdout[2])

\* C17: the request loop never crashes: whatever the lines written to its
\* input, every one of them is read by the loop and answered, one response
\* per line, none is lost, and the loop is over only at end of stream with
\* every line answered.
C17_EveryLineIsAnswered ==
    /\ Len(stdout) = Len(stdin) - (IF pc = "serve" THEN 1 ELSE 0)
    /\ pc \in {"read", "serve", "done"}
    /\ pc = "done" => Len(stdout) = Len(stdin)
    /\ eaten = ""

\* What holds of the lines that readline gets: each is answered before the
\* next is read, whatever it holds, and the loop ends with all of them answered
C17_EveryLineReadIsAnswered ==
    /\ Len(stdout) = Len(stdin) - (IF pc = "serve" THEN 1 ELSE 0)
    /\ pc \in {"read", "serve", "done"}
    /\ pc = "done" => Len(stdout) = Len(stdin)

\* The loop is left by the break at end of stream and in no other way
C17_StopsOnlyAtEndOfStream ==
    [][pc' = "done" => (pc = "read" /\ UNCHANGED <<stdin, stdout, fs>>)]_vars

\* The line calls some registered tool with a mapping as arguments
CallsRegisteredTool(l) == \E name \in tool_handlers : Calls(l, name)

\* C18: every tools/call that names a registered tool and hands it a mapping
\* is answered, whatever the argument values and the filesystem, with a
\* top-level result and no top-level error, the result's content being
\* exactly one block, of type "text"; a failure of the operation is such a
\* text too.
C18_FailuresAreSoftResults ==
    \A i \in 1..Len(stdout) :
        CallsRegisteredTool(stdin[i]) =>
            /\ IsResult(stdout[i])
            /\ "error" \notin DOMAIN stdout[i]
            /\ DOMAIN stdout[i].result = {"content"}
            /\ Len(stdout[i].result.content) = 1
            /\ DOMAIN stdout[i].result.content[1] = {"type", "text"}
            /\ stdout[i].result.content[1].type = "text"

\* Failures of three kinds were answered so: an ill-typed argument, a path
\* that is not there, and a path turned away by the Safety Gate
C18_Witness ==
    /\ Len(stdout) = 2
    /\ Calls(stdin[1], "write_file")
    /\ Get(ArgumentsOf(stdin[1]), "content", Null) = Num(5)
    /\ StartsWith(TextOf(stdout[1]), "Error writing file: write() argument must be str")
    /\ Calls(stdin[2], "read_file")
    /\ \/ StartsWith(TextOf(stdout[2]), "Error reading file: [Errno 2]")
       \/ TextOf(stdout[2]) = RestrictedText

\* The line is an initialize request
IsInitialize(l) == IsRequest(l) /\ MethodOf(l) = Str("initialize")

\* What serving the line l as the first line comes to, text lying unread on
\* standard input: the response and the filesystem left
Alone(l, text) ==
    IF l.kind = "garbage"
    THEN [response |-> ErrorResponse(Null, -32700,
                           "Parse error: Expecting value: line 1 column 1 (char 0)"),
          fs |-> Arrived(InitFs, text)]
    ELSE IF Escaping(l) # ""
    THEN [response |-> ErrorResponse(Null, -32603, "Internal error: " \o Escaping(l)),
          fs |-> Arrived(InitFs, text)]
    ELSE handle_request(Arrived(InitFs, text), l.value)

\* C19: initialize is answered, wherever it stands among the requests, with
\* the same descriptor (protocol version 2024-11-05, the tools and resources
\* capabilities, server file-manager 1.0.0) under the request's id; serving
\* it invokes no operation and leaves the filesystem and the input as they
\* were; and a request served after an initialize gets the response, and
\* leaves the filesystem, that it does when served first.
C19_InitializeIsStateless ==
    /\ \A i \in 1..Len(stdout) :
           IsInitialize(stdin[i]) =>
               stdout[i] = [jsonrpc |-> "2.0", id |-> Get(stdin[i].value, "id", Null),
                            result |-> [protocolVersion |-> "2024-11-05",
                                        capabilities |-> [tools |-> <<>>,
                                                          resources |-> <<>>],
                                        serverInfo |-> [name |-> "file-manager",
                                                        version |-> "1.0.0"]]]
    /\ (Answered /\ IsInitialize(line)) =>
           /\ fs = pre /\ touched = {} /\ called = "none"
           /\ Len(stdin) = 1 => (fs = InitFs /\ eaten = "")
    /\ (Len(stdout) = 2 /\ IsInitialize(stdin[1])) =>
           \E text \in Unread(stdin[2]) :
               /\ stdout[2] = Alone(stdin[2], text).response
               /\ fs = [Alone(stdin[2], text).fs EXCEPT ![StdinPath].data = <<>>]
               /\ eaten = (IF Alone(stdin[2], text).fs[StdinPath].data = <<>>
                           THEN text ELSE "")

\* initialize was served before and after a write that changed the filesystem
C19_Witness ==
    /\ Len(stdout) = 2
    /\ \/ /\ IsInitialize(stdin[1])
          /\ Calls(stdin[2], "write_file") /\ Succeeded(stdout[2]) /\ fs # InitFs
       \/ /\ Calls(stdin[1], "write_file") /\ Succeeded(stdout[1]) /\ fs # InitFs
          /\ IsInitialize(stdin[2])
          /\ Get(stdin[2].value, "id", Null) = Str("x")
          /\ stdout[2].id = Str("x")

\* The line is a tools/list request
IsToolsList(l) == IsRequest(l) /\ MethodOf(l) = Str("tools/list")

\* C20: tools/list is answered, wherever it stands among the requests, with
\* the same list under the request's id: as many descriptors as the registry
\* has entries, the k-th made of the name, the description and the
\* inputSchema of the k-th entry and of nothing else, the names being, in
\* this order, read_file, write_file, list_files, create_directory,
\* delete_file, move_file, copy_file, get_file_info, search_files, no two of
\* them equal; serving it leaves the filesystem as it was.
C20_ToolsListIsTheRegistry ==
    /\ \A i \in 1..Len(stdout) :
           IsToolsList(stdin[i]) =>
               /\ IsResult(stdout[i]) /\ "error" \notin DOMAIN stdout[i]
               /\ stdout[i].id = Get(stdin[i].value, "id", Null)
               /\ DOMAIN stdout[i].result = {"tools"}
               /\ Len(stdout[i].result.tools) = Len(tools)
               /\ \A k \in 1..Len(tools) :
                      /\ DOMAIN stdout[i].result.tools[k]
                             = {"name", "description", "inputSchema"}
                      /\ stdout[i].result.tools[k].name = tools[k].name
                      /\ stdout[i].result.tools[k].description = tools[k].description
                      /\ stdout[i].result.tools[k].inputSchema = tools[k].inputSchema
               /\ [k \in 1..Len(tools) |-> stdout[i].result.tools[k].name]
                      = <<"read_file", "write_file", "list_files", "create_directory",
                          "delete_file", "move_file", "copy_file", "get_file_info",
                          "search_files">>
               /\ \A j, k \in 1..Len(stdout[i].result.tools) :
                      j # k => stdout[i].result.tools[j].name
                                   # stdout[i].result.tools[k].name
    /\ (Answered /\ IsToolsList(line)) => (fs = pre /\ touched = {} /\ called = "none")
    /\ (Len(stdout) = 2 /\ IsToolsList(stdin[1]) /\ IsToolsList(stdin[2])) =>
           stdout[1].result = stdout[2].result

\* tools/list was served after a tool call that changed the filesystem
C20_Witness ==
    /\ Len(stdout) = 2
    /\ CallsRegisteredTool(stdin[1]) /\ Succeeded(stdout[1]) /\ fs # InitFs
    /\ IsToolsList(stdin[2])
    /\ Len(stdout[2].result.tools) = 9

\* ---- The URL scraper's specification ----

ScrapeInit ==
    /\ pc = "read" /\ stdin = <<>> /\ stdout = <<>>
    /\ fs = InitFs /\ pre = InitFs
    /\ touched = {} /\ called = "none" /\ eaten = ""
    /\ scrape \in ScrapeCalls
    /\ gate = Idle

\* The tool call: scrape_url runs to its return or its raise
ScrapeUrl ==
    /\ scrape.pc = "called"
    /\ scrape' = [pc |-> "returned", call |-> scrape,
                  out |-> scrape_url(scrape.url, scrape.max_chars,
                                     scrape.max_links, scrape.got)]
    /\ UNCHANGED <<pc, stdin, stdout, fs, pre, touched, called, eaten, gate>>

ScrapeNext == ScrapeUrl

ScrapeSpec == ScrapeInit /\ [][ScrapeNext]_vars

\* scrape_url has returned a dict
Scraped == scrape.pc = "returned" /\ scrape.out.raised = ""

\* C21: scrape_url returns at most max_links links: whenever it returns for
\* a max_links >= 0, the links list of the result has no more than max_links
\* entries.
C21_AtMostMaxLinks ==
    (Scraped /\ scrape.call.max_links >= 0) =>
        Len(scrape.out.result.links) <= scrape.call.max_links

\* The same for a max_links of at least 1
C21_AtMostMaxLinksWhenPositive ==
    (Scraped /\ scrape.call.max_links >= 1) =>
        Len(scrape.out.result.links) <= scrape.call.max_links

\* A page with more anchors than the limit was cut to the limit
C21_Witness ==
    /\ Scraped
    /\ scrape.call.max_links = 2
    /\ Len(scrape.call.got.anchors) = MaxAnchors
    /\ \A i \in 1..MaxAnchors : scrape.call.got.anchors[i].href # ""
    /\ Len(scrape.out.result.links) = 2

\* ---- The Safety Gate's specification ----

GateInit ==
    /\ pc = "read" /\ stdin = <<>> /\ stdout = <<>>
    /\ fs = InitFs /\ pre = InitFs
    /\ touched = {} /\ called = "none" /\ eaten = ""
    /\ scrape = Idle
    /\ gate \in {[pc |-> "called", cwd |-> d, file_path |-> p] :
                    d \in GateDirs, p \in GatePaths}

\* The call: is_safe_path returns its verdict
IsSafePath ==
    /\ gate.pc = "called"
    /\ gate' = [pc |-> "returned", cwd |-> gate.cwd, file_path |-> gate.file_path,
                safe |-> is_safe_path_from(gate.cwd, gate.file_path)]
    /\ UNCHANGED <<pc, stdin, stdout, fs, pre, touched, called, eaten, scrape>>

GateNext == IsSafePath

GateSpec == GateInit /\ [][GateNext]_vars

\* The absolute, user-expanded form of the str path p for the working
\* directory cwd: the home directory for a leading "~", the working
\* directory before a relative path, and ".", ".." and doubled slashes
\* resolved
AbsoluteForm(cwd, p) ==
    normpath(IF StartsWith(p, "~/") THEN Home \o From(p, 2)
             ELSE IF p = "~" THEN Home
             ELSE IF StartsWith(p, "/") THEN p
             ELSE IF cwd = "/" THEN "/" \o p
             ELSE cwd \o "/" \o p)

\* C22: is_safe_path returns false exactly when the path is no string (its
\* resolution raises) or its absolute, user-expanded form begins with one of
\* /etc, /sys, /proc, C:\Windows and C:\Program Files, and true otherwise; a
\* relative path is judged by where the working directory puts it, so the
\* plain name x is safe under / and /tmp and unsafe under /etc and /proc.
C22_GateIsThePrefixTest ==
    gate.pc = "returned" =>
        /\ gate.safe = FALSE <=>
               \/ gate.file_path.t # "str"
               \/ \E prefix \in {"/etc", "/sys", "/proc", "C:\\Windows",
                                 "C:\\Program Files"} :
                      StartsWith(AbsoluteForm(gate.cwd, gate.file_path.v), prefix)
        /\ gate.file_path = Str("x") =>
               (gate.safe <=> gate.cwd \in {"/", "/tmp", "/home/etc"})
        /\ gate.file_path = Str("../etc/x") =>
               (gate.safe <=> gate.cwd = "/home/etc")

\* A relative path was turned away for the working directory it was judged in
C22_Witness ==
    /\ gate.pc = "returned"
    /\ gate.file_path = Str("passwd")
    /\ gate.cwd = "/etc"
    /\ gate.safe = FALSE

\* The line served was a request to write /etc2/x, a path that does not lie
\* inside /etc but whose name begins as /etc does
WroteToSibling ==
    /\ Answered /\ Calls(line, "write_file")
    /\ Get(ArgumentsOf(line), "path", Str("")) = Str("/etc2/x")
    /\ ~Beneath(abspath("/etc2/x"), "/etc")

\* C23: the Safety Gate under-rejects a sibling of a deny-listed directory:
\* /etc2/x, which does not lie inside /etc, is classified as safe by
\* is_safe_path and the handler acts on it.
C23_SiblingIsActedOn ==
    WroteToSibling =>
        /\ is_safe_path(Str("/etc2/x"))
        /\ TextOf(response) # RestrictedText
        /\ called = "write_file"

\* What the gate does: the absolute form /etc2/x begins with /etc, so
\* is_safe_path classifies it as unsafe, the handler answers with the
\* restricted text and acts on nothing.
C23_SiblingIsTurnedAway ==
    WroteToSibling =>
        /\ ~is_safe_path(Str("/etc2/x"))
        /\ TextOf(response) = RestrictedText
        /\ touched = {} /\ fs = pre

C23_Witness ==
    /\ WroteToSibling
    /\ called = "write_file"
    /\ TextOf(response) = "Error: Access to this path is restricted"

\* The line served was a write_file call that reported success
Wrote == Answered /\ Calls(line, "write_file") /\ Succeeded(response)

\* The file a write_file call names, its supplied content, and what the file
\* held before the call (nothing when it did not exist)
Written == Resolve(pre, Get(ArgumentsOf(line), "path", Str("")).v)
Supplied == Get(ArgumentsOf(line), "content", Str("")).v
Appending == Truthy(Get(ArgumentsOf(line), "append", Bool(FALSE)))
HeldBefore == IF Written \in DOMAIN pre THEN pre[Written].data ELSE <<>>

\* C24: a successful write_file without append leaves the file holding exactly
\* the supplied content, whatever it held before and whether or not it
\* existed; with append it leaves the previous content followed by the
\* supplied content; in both cases every other file is as it was.
C24_WriteLeavesTheSuppliedContent ==
    Wrote =>
        /\ Written \in DOMAIN fs /\ fs[Written].type = "file"
        /\ fs[Written].data
               = (IF Appending THEN HeldBefore ELSE <<>>) \o Encode(Supplied)
        /\ Decode(Encode(Supplied)) = Supplied
        /\ DOMAIN fs = DOMAIN pre \cup {Written}
        /\ \A q \in DOMAIN fs \ {Written} : fs[q] = pre[q]

C24_Witness ==
    /\ Wrote /\ ~Appending
    /\ Written \in DOMAIN pre /\ pre[Written].data # <<>>
    /\ Supplied = "a\r\nb"
    /\ fs[Written].data = Encode("a\r\nb")
    /\ fs[Written].data # pre[Written].data

\* The tool names a tools/list response advertises
Advertised(r) == {r.result.tools[k].name : k \in 1..Len(r.result.tools)}

\* The line called a tool by a name that is a string
CallsByName(l) == IsToolsCall(l) /\ NameOf(l).t = "str"

\* C25: the set of tool names tools/list advertises is exactly the set of
\* names tools/call routes to a handler: every advertised tool is callable
\* and no unadvertised name reaches a handler.
C25_RegistryAndDispatchAgree ==
    /\ {tools[k].name : k \in 1..Len(tools)} = tool_handlers
    /\ (Answered /\ IsToolsList(line)) => Advertised(response) = tool_handlers
    /\ (Answered /\ CallsByName(line)) =>
           /\ NameOf(line).v \in {tools[k].name : k \in 1..Len(tools)}
                  <=> called = NameOf(line).v
           /\ NameOf(line).v \notin {tools[k].name : k \in 1..Len(tools)}
                  <=> called = "none"
    /\ (Answered /\ Len(stdin) = 2 /\ IsToolsList(stdin[1]) /\ CallsByName(line)) =>
           (NameOf(line).v \in Advertised(stdout[1]) <=> called # "none")

\* A tool named in the tools/list response just received was then called and
\* its handler ran
C25_Witness ==
    /\ Answered /\ Len(stdin) = 2 /\ IsToolsList(stdin[1]) /\ CallsByName(line)
    /\ NameOf(line).v \in Advertised(stdout[1])
    /\ called = "search_files"

\* The tools that change the filesystem
Mutating == {"write_file", "create_directory", "delete_file", "move_file", "copy_file"}

\* The line served was a request that reached no mutating handler:
\* initialize, tools/list, another method, an unknown tool, or one of
\* read_file, list_files, get_file_info and search_files
ServedReadOnly ==
    /\ Answered /\ IsRequest(line)
    /\ called \notin Mutating
    /\ ~(CallsByName(line) /\ NameOf(line).v \in Mutating)

\* C26: after a read_file, list_files, get_file_info or search_files call, and
\* after an initialize, tools/list, unknown-method or unknown-tool request,
\* every file exists or not as before the request and has the type and the
\* content it had, whether the call succeeded or returned an error.  (What
\* lies unread in the pipe behind /dev/stdin is input of the process, not
\* content of a file; a read_file of it is the subject of C17.)
C26_ReadOnlyLeavesFilesystem ==
    ServedReadOnly =>
        /\ DOMAIN fs = DOMAIN pre
        /\ \A p \in DOMAIN fs :
               /\ fs[p].type = pre[p].type
               /\ fs[p].type # "pipe" => fs[p].data = pre[p].data

\* A read_file call returned the content an earlier write_file had stored
C26_Witness ==
    /\ ServedReadOnly /\ Len(stdin) = 2
    /\ Calls(stdin[1], "write_file") /\ Succeeded(stdout[1])
    /\ called = "read_file"
    /\ IsResult(response) /\ TextOf(response) = "a\nb"
    /\ fs # InitFs

\* The line served was a call of a mutating tool that returned a soft error
MutationFailed ==
    /\ Answered /\ CallsByName(line) /\ NameOf(line).v \in Mutating
    /\ IsResult(response) /\ StartsWith(TextOf(response), "Error")

\* C27: a write_file, create_directory, delete_file, move_file or copy_file
\* call that returns a soft error leaves the filesystem exactly as it was
\* before the call: no truncated target, no partly copied or partly deleted
\* tree.
C27_FailedMutationLeavesFilesystem == MutationFailed => fs = pre

\* The failures that do leave something behind: a write_file whose open
\* succeeded before the write or the codec lookup failed, and a recursive
\* delete_file whose tree was removed before the directory itself could not be
LeavesSomething ==
    \/ /\ NameOf(line).v = "write_file"
       /\ \/ StartsWith(TextOf(response), "Error writing file: write() argument must be str")
          \/ StartsWith(TextOf(response), "Error writing file: unknown encoding")
    \/ /\ NameOf(line).v = "delete_file"
       /\ LastComponent(Get(ArgumentsOf(line), "path", Str("")).v) \in {".", ".."}

\* Every other soft error of a mutating tool leaves the filesystem as it was
C27_OtherFailuresLeaveFilesystem ==
    (MutationFailed /\ ~LeavesSomething) => fs = pre

\* The line served was a search_files call that listed at least one file
ListedFiles ==
    /\ Answered /\ Calls(line, "search_files")
    /\ StartsWith(TextOf(response), "[")

\* C28: every file entry of a search_files result has between one and five
\* matches, whatever the search pattern, one that holds a newline or is empty
\* included.
C28_EveryEntryHasMatches ==
    ListedFiles =>
        \A p \in FilesListed(TextOf(response)) :
            /\ Cardinality(MatchPlaces(TextOf(response), p)) >= 1
            /\ Cardinality(MatchPlaces(TextOf(response), p)) <= MaxMatches

\* The pattern of the search holds a newline
AcrossLines == SearchPattern.t = "str" /\ Contains(SearchPattern.v, "\n")

\* For a pattern without a newline the claim holds, the empty pattern included
C28_EveryEntryHasMatchesWithinALine ==
    (ListedFiles /\ ~AcrossLines) =>
        \A p \in FilesListed(TextOf(response)) :
            /\ Cardinality(MatchPlaces(TextOf(response), p)) >= 1
            /\ Cardinality(MatchPlaces(TextOf(response), p)) <= MaxMatches

=============================================================================
